---- MODULE Spec2Model ----
(***************************************************************************)
(* Chat protocol adapter of the OpenCode Zen chat provider: the tool-name  *)
(* adapter (buildToolNameMap), the streaming response adapter (streamZen   *)
(* with the callbacks of provideLanguageModelChatResponse), the message    *)
(* translator (messagesToAiSdkMessages), the prompt-cache annotator, the   *)
(* self-test tool loop (runToolLoop), the model registry (ModelRegistry),  *)
(* the preparation of a request up to its streaming call, the prompt cache *)
(* key over many calls (getOrCreatePromptCacheKey), and the pure functions *)
(* sanitizeToolName and wrapApiError on their own.  SpecToolCalls runs the *)
(* tool-name adapter and then the streaming adapter with the map it built. *)
(*                                                                         *)
(* Strings that the code inspects character by character (tool names) are  *)
(* sequences of one-character strings.  Each component has its own         *)
(* specification; the variables of the other components stay idle in it.   *)
(***************************************************************************)
EXTENDS Integers, Sequences, FiniteSets, TLC

VARIABLES
    \* buildToolNameMap (provider.ts 367-394)
    tools, providerNpm, toProvider, toVsCode, used, toolIdx, baseName, name, suffix, pcN,
    \* provideLanguageModelChatResponse / streamZen (provider.ts 47-130, zenClient.ts 105-218)
    apiKey, reqNameMap, received, emitted, sawAnyChunk, calls, progress, thrown, pcS,
    aborted, streamCalls, streamOptions, thrownDetails, failure,
    \* messagesToAiSdkMessages (provider.ts 143-166)
    conversation, transNameMap, outMessages, pcT,
    \* runToolLoop (extension.ts 264-337)
    loopI, requests, loopMessages, responses, loopError, pcL,
    \* the cache annotators (provider.ts 444-542)
    cacheInput, cacheOp, cacheOnce, cacheTwice, pcC,
    \* sanitizeToolName applied to a name and to its own result (provider.ts 396-400)
    sanName, sanOnce, sanTwice, pcZ,
    \* ModelRegistry (modelRegistry.ts 43-117)
    cachedAtMs, cachedModels, providerDefaults, modelProviderOverrides, modelRequestMetadata, changeEvents, clock, ttlMinutes, inFlight, fetches, lastCall, pcR,
    afterInvalidate, hostEvents, refreshed, ended,
    \* provideLanguageModelChatResponse up to the streaming request (provider.ts 53-93, zenClient.ts 122-155)
    storedKey, regLoaded, feedNpm, modelId, promptCaching, keyStore, coreMessages, modelOptions, providerInfoNpm, promptCacheKey, cachedMessages, reqProviderOptions, network, reqThrown, pcQ,
    storageLog, sentBody,
    \* wrapApiError applied to a failure (zenClient.ts 26-46)
    errIn, errOut, pcE,
    \* getOrCreatePromptCacheKey called again and again (provider.ts 423-435)
    scopeStore, keyCalls, uuids, pending, keyWrites,
    \* languageModelToolResultContentToOutput on its own (provider.ts 275-326)
    resultContent, resultOutput, pcO

nameVars == <<tools, providerNpm, toProvider, toVsCode, used, toolIdx, baseName, name, suffix, pcN>>

streamVars ==
    <<apiKey, reqNameMap, received, emitted, sawAnyChunk, calls, progress, thrown, pcS,
      aborted, streamCalls, streamOptions, thrownDetails, failure>>

transVars == <<conversation, transNameMap, outMessages, pcT>>

loopVars == <<loopI, requests, loopMessages, responses, loopError, pcL>>

cacheVars == <<cacheInput, cacheOp, cacheOnce, cacheTwice, pcC>>

sanVars == <<sanName, sanOnce, sanTwice, pcZ>>

regVars ==
    <<cachedAtMs, cachedModels, providerDefaults, modelProviderOverrides, modelRequestMetadata,
      changeEvents, clock, ttlMinutes, inFlight, fetches, lastCall, pcR,
      afterInvalidate, hostEvents, refreshed, ended>>

reqVars ==
    <<storedKey, regLoaded, feedNpm, modelId, promptCaching, keyStore, coreMessages, modelOptions,
      providerInfoNpm, promptCacheKey, cachedMessages, reqProviderOptions, network, reqThrown, pcQ,
      storageLog, sentBody>>

errVars == <<errIn, errOut, pcE>>

keyVars == <<scopeStore, keyCalls, uuids, pending, keyWrites>>

outVars == <<resultContent, resultOutput, pcO>>

vars == <<nameVars, streamVars, transVars, loopVars, cacheVars, sanVars, regVars, reqVars, errVars, keyVars, outVars>>

\* ------------------------------------------------------------------------
\* Bounds of the model
\* ------------------------------------------------------------------------

\* longest tool list handed to buildToolNameMap
MaxTools == 3

\* the suffix counter of the collision loop saturates here (a JavaScript
\* number stops growing at 2^53); larger than any number of attempts a
\* terminating search over MaxTools tools can need
SuffixCap == 5

\* longest event stream one request receives
MaxEvents == 3

\* longest conversation handed to messagesToAiSdkMessages
MaxTurns == 3

\* longest message list handed to a cache annotator
MaxMessages == 4

\* longest short name handed to sanitizeToolName on its own
MaxShortName == 2

\* the clock of the registry advances this many half minutes at most
MaxClock == 3

\* metadata fetches the registry issues at most
MaxFetches == 2

\* getModels calls that wait for their fetch at the same time, at most
MaxInFlight == 2

\* invalidate() calls, at most
MaxInvalidations == 1

\* longest failure message handed to wrapApiError on its own, in tokens
MaxMessageTokens == 3

\* tool calls of one stream in the runs that follow buildToolNameMap
MaxNamedCalls == 2

\* nested parts of one tool result
MaxNested == 3

\* calls of getOrCreatePromptCacheKey in one run
MaxKeyCalls == 4

\* calls of getOrCreatePromptCacheKey that may overlap
MaxRaceCalls == 3

\* ------------------------------------------------------------------------
\* Values
\* ------------------------------------------------------------------------

\* JavaScript's undefined
Undefined == "undefined"

\* a Map with no entries
EmptyMap == [x \in {} |-> Undefined]

Min(a, b) == IF a < b THEN a ELSE b

Rep(c, n) == [i \in 1..n |-> c]

\* String.prototype.slice(0, n)
Slice(s, n) == SubSeq(s, 1, Min(Len(s), n))

\* the concatenation of a sequence of sequences (out.push(...mapped))
RECURSIVE Flatten(_)
Flatten(ss) == IF ss = <<>> THEN <<>> ELSE Head(ss) \o Flatten(Tail(ss))

DigitChar == <<"0", "1", "2", "3", "4", "5", "6", "7", "8", "9">>

\* the decimal text of a non-negative integer, as a template literal prints it
RECURSIVE Digits(_)
Digits(n) == IF n < 10 THEN <<DigitChar[n + 1]>>
             ELSE Digits(n \div 10) \o <<DigitChar[(n % 10) + 1]>>

\* ------------------------------------------------------------------------
\* A component that is not running
\* ------------------------------------------------------------------------

\* streamZen called with no option set
NoStreamOptions ==
    [providerNpm |-> Undefined, baseURL |-> Undefined, modelId |-> Undefined,
     tools |-> Undefined, toolMode |-> "auto"]

NamesIdle ==
    /\ tools = <<>> /\ providerNpm = Undefined
    /\ toProvider = EmptyMap /\ toVsCode = EmptyMap /\ used = {}
    /\ toolIdx = 0 /\ baseName = <<>> /\ name = <<>> /\ suffix = 0 /\ pcN = "idle"

StreamIdle ==
    /\ apiKey = Undefined /\ reqNameMap = EmptyMap /\ received = <<>>
    /\ emitted = FALSE /\ sawAnyChunk = FALSE /\ calls = <<>> /\ progress = <<>>
    /\ thrown = <<>> /\ pcS = "idle"
    /\ aborted = FALSE /\ streamCalls = 0
    /\ streamOptions = NoStreamOptions /\ thrownDetails = <<>> /\ failure = <<>>

TransIdle ==
    /\ conversation = <<>> /\ transNameMap = EmptyMap /\ outMessages = <<>> /\ pcT = "idle"

LoopIdle ==
    /\ loopI = 0 /\ requests = 0 /\ loopMessages = <<>> /\ responses = <<>>
    /\ loopError = <<>> /\ pcL = "idle"

CacheIdle ==
    /\ cacheInput = <<>> /\ cacheOp = <<>> /\ cacheOnce = <<>> /\ cacheTwice = <<>>
    /\ pcC = "idle"

SanIdle ==
    /\ sanName = <<>> /\ sanOnce = <<>> /\ sanTwice = <<>> /\ pcZ = "idle"

RegIdle ==
    /\ cachedAtMs = <<>> /\ cachedModels = <<>> /\ providerDefaults = <<>>
    /\ modelProviderOverrides = EmptyMap /\ modelRequestMetadata = EmptyMap
    /\ changeEvents = 0 /\ clock = 0 /\ ttlMinutes = 0 /\ inFlight = <<>> /\ fetches = 0
    /\ lastCall = <<>> /\ pcR = "idle"
    /\ afterInvalidate = "never" /\ hostEvents = 0 /\ refreshed = 0 /\ ended = <<>>

ReqIdle ==
    /\ storedKey = Undefined /\ regLoaded = FALSE /\ feedNpm = Undefined /\ modelId = <<>>
    /\ promptCaching = <<>> /\ keyStore = <<>> /\ coreMessages = <<>> /\ modelOptions = <<>>
    /\ providerInfoNpm = Undefined /\ promptCacheKey = Undefined /\ cachedMessages = <<>>
    /\ reqProviderOptions = <<>> /\ network = <<>> /\ reqThrown = <<>> /\ pcQ = "idle"
    /\ storageLog = <<>> /\ sentBody = <<>>

ErrIdle ==
    /\ errIn = <<>> /\ errOut = <<>> /\ pcE = "idle"

KeyIdle ==
    scopeStore = <<>> /\ keyCalls = <<>> /\ uuids = 0 /\ pending = {} /\ keyWrites = <<>>

OutIdle ==
    resultContent = <<>> /\ resultOutput = <<>> /\ pcO = "idle"

otherThanNames == <<streamVars, transVars, loopVars, cacheVars, sanVars, regVars, reqVars, errVars, keyVars, outVars>>

otherThanStream == <<nameVars, transVars, loopVars, cacheVars, sanVars, regVars, reqVars, errVars, keyVars, outVars>>

otherThanTrans == <<nameVars, streamVars, loopVars, cacheVars, sanVars, regVars, reqVars, errVars, keyVars, outVars>>

otherThanLoop == <<nameVars, streamVars, transVars, cacheVars, sanVars, regVars, reqVars, errVars, keyVars, outVars>>

otherThanCache == <<nameVars, streamVars, transVars, loopVars, sanVars, regVars, reqVars, errVars, keyVars, outVars>>

otherThanSan == <<nameVars, streamVars, transVars, loopVars, cacheVars, regVars, reqVars, errVars, keyVars, outVars>>

otherThanReg == <<nameVars, streamVars, transVars, loopVars, cacheVars, sanVars, reqVars, errVars, keyVars, outVars>>

otherThanReq == <<nameVars, streamVars, transVars, loopVars, cacheVars, sanVars, regVars, errVars, keyVars, outVars>>

otherThanErr == <<nameVars, streamVars, transVars, loopVars, cacheVars, sanVars, regVars, reqVars, keyVars, outVars>>

otherThanKey == <<nameVars, streamVars, transVars, loopVars, cacheVars, sanVars, regVars, reqVars, errVars, outVars>>

otherThanOut == <<nameVars, streamVars, transVars, loopVars, cacheVars, sanVars, regVars, reqVars, errVars, keyVars>>

\* ------------------------------------------------------------------------
\* Tool Name Adapter: provider.ts, buildToolNameMap / sanitizeToolName
\* ------------------------------------------------------------------------

\* .slice(0, 128)
MaxToolNameLen == 128

\* the characters the regular expression [^a-zA-Z0-9_-] leaves alone
SafeChars ==
    { "a", "b", "c", "d", "e", "f", "g", "h", "i", "j", "k", "l", "m",
      "n", "o", "p", "q", "r", "s", "t", "u", "v", "w", "x", "y", "z",
      "A", "B", "C", "D", "E", "F", "G", "H", "I", "J", "K", "L", "M",
      "N", "O", "P", "Q", "R", "S", "T", "U", "V", "W", "X", "Y", "Z",
      "0", "1", "2", "3", "4", "5", "6", "7", "8", "9", "_", "-" }

\* a sanitizer that also escapes the hyphen
sanitizeToolNameNoHyphen(n) ==
    LET cleaned == [i \in 1..Len(n) |-> IF n[i] \in SafeChars \ {"-"} THEN n[i] ELSE "_"]
    IN  IF Len(cleaned) > 0 THEN Slice(cleaned, MaxToolNameLen) ELSE <<"t", "o", "o", "l">>

\* a sanitizer that marks its result with a leading underscore
sanitizeToolNameMarking(n) ==
    LET cleaned == [i \in 1..Len(n) |-> IF n[i] \in SafeChars THEN n[i] ELSE "_"]
    IN  IF Len(cleaned) > 0 THEN Slice(<<"_">> \o cleaned, MaxToolNameLen)
        ELSE <<"t", "o", "o", "l">>

\* lines 396-400
sanitizeToolName(n) ==
    LET cleaned == [i \in 1..Len(n) |-> IF n[i] \in SafeChars THEN n[i] ELSE "_"]
    IN  IF Len(cleaned) > 0 THEN Slice(cleaned, MaxToolNameLen) ELSE <<"t", "o", "o", "l">>

\* providerNpm === '@ai-sdk/anthropic' || providerNpm === '@ai-sdk/openai'
needsSanitize(npm) == npm = "@ai-sdk/anthropic" \/ npm = "@ai-sdk/openai"

\* a suffixed name that is not cut to the maximum length
SuffixedNameUncut(base, k) == base \o <<"_">> \o Digits(k)

\* `${baseName}_${suffix++}`.slice(0, 128)
SuffixedName(base, k) == Slice(base \o <<"_">> \o Digits(k), MaxToolNameLen)

\* Map.prototype.set
MapSet(m, k, v) == [x \in (DOMAIN m) \cup {k} |-> IF x = k THEN v ELSE m[x]]

\* mapToolName: toolNameMap.get(name) ?? name
mapToolName(n, m) == IF n \in DOMAIN m THEN m[n] ELSE n

\* tool names the lists are drawn from
GetDashTime == <<"G", "e", "t", "-", "T", "i", "m", "e">>
GetUnderTime == <<"G", "e", "t", "_", "T", "i", "m", "e">>
GetDotTime == <<"G", "e", "t", ".", "T", "i", "m", "e">>
GetUnderTime1 == <<"G", "e", "t", "_", "T", "i", "m", "e", "_", "1">>
EmptyName == <<>>
LongBang == Rep("a", MaxToolNameLen - 1) \o <<"!">>
LongUnder == Rep("a", MaxToolNameLen - 1) \o <<"_">>

ToolNamePool == { GetDashTime, GetUnderTime, GetDotTime, GetUnderTime1, EmptyName,
                  LongBang, LongUnder }

Dialects == { "@ai-sdk/anthropic", "@ai-sdk/openai", "@ai-sdk/openai-compatible", Undefined }

ToolLists == UNION { [1..n -> ToolNamePool] : n \in 0..MaxTools }

InitNames ==
    /\ tools \in ToolLists
    /\ providerNpm \in Dialects
    /\ toProvider = EmptyMap /\ toVsCode = EmptyMap /\ used = {}
    /\ toolIdx = 0 /\ baseName = <<>> /\ name = <<>> /\ suffix = 0
    /\ pcN = "start"
    /\ StreamIdle /\ TransIdle /\ LoopIdle /\ CacheIdle /\ SanIdle /\ RegIdle /\ ReqIdle /\ ErrIdle /\ KeyIdle /\ OutIdle

\* lines 371-379: the maps are created; an empty list returns at once
BuildStart ==
    /\ pcN = "start"
    /\ IF Len(tools) = 0
       THEN pcN' = "done" /\ toolIdx' = toolIdx
       ELSE pcN' = "for" /\ toolIdx' = 1
    /\ UNCHANGED <<tools, providerNpm, toProvider, toVsCode, used, baseName, name, suffix>>
    /\ UNCHANGED otherThanNames

\* lines 381-384: the next tool of the for-of loop, or the return of line 393
ForNextTool ==
    /\ pcN = "for"
    /\ IF toolIdx > Len(tools)
       THEN /\ pcN' = "done"
            /\ UNCHANGED <<baseName, name, suffix>>
       ELSE /\ baseName' = IF needsSanitize(providerNpm)
                           THEN sanitizeToolName(tools[toolIdx]) ELSE tools[toolIdx]
            /\ name' = baseName'
            /\ suffix' = 1
            /\ pcN' = "while"
    /\ UNCHANGED <<tools, providerNpm, toProvider, toVsCode, used, toolIdx>>
    /\ UNCHANGED otherThanNames

\* line 385 with the name taken: the loop body is entered
WhileCollides ==
    /\ pcN = "while"
    /\ name \in used
    /\ pcN' = "body"
    /\ UNCHANGED <<tools, providerNpm, toProvider, toVsCode, used, toolIdx, baseName, name, suffix>>
    /\ UNCHANGED otherThanNames

\* line 386: one suffix attempt
SuffixAttempt ==
    /\ pcN = "body"
    /\ name' = SuffixedName(baseName, suffix)
    /\ suffix' = Min(suffix + 1, SuffixCap)
    /\ pcN' = "while"
    /\ UNCHANGED <<tools, providerNpm, toProvider, toVsCode, used, toolIdx, baseName>>
    /\ UNCHANGED otherThanNames

\* the name is recorded in both maps but not marked as used
RecordNameUnmarked ==
    /\ pcN = "while"
    /\ name \notin used
    /\ used' = used
    /\ toProvider' = MapSet(toProvider, tools[toolIdx], name)
    /\ toVsCode' = MapSet(toVsCode, name, tools[toolIdx])
    /\ toolIdx' = toolIdx + 1
    /\ pcN' = "for"
    /\ UNCHANGED <<tools, providerNpm, baseName, name, suffix>>
    /\ UNCHANGED otherThanNames

\* line 385 with the name free, then lines 388-390
RecordName ==
    /\ pcN = "while"
    /\ name \notin used
    /\ used' = used \cup {name}
    /\ toProvider' = MapSet(toProvider, tools[toolIdx], name)
    /\ toVsCode' = MapSet(toVsCode, name, tools[toolIdx])
    /\ toolIdx' = toolIdx + 1
    /\ pcN' = "for"
    /\ UNCHANGED <<tools, providerNpm, baseName, name, suffix>>
    /\ UNCHANGED otherThanNames

NextNames == BuildStart \/ ForNextTool \/ WhileCollides \/ SuffixAttempt \/ RecordName

\* buildToolNameMap is synchronous code: once called it keeps running
SpecToolNames == InitNames /\ [][NextNames]_vars /\ WF_vars(NextNames)

\* characters of the names handed to sanitizeToolName on its own
NameAlphabet == { "a", "Z", "7", "_", "-", ".", " ", "!" }

ShortNames == UNION { [1..n -> NameAlphabet] : n \in 0..MaxShortName }

\* names one short of the maximum length, at it, and beyond it
LongNames ==
    { Rep("a", MaxToolNameLen - 1) \o tail : tail \in ShortNames }
    \cup { Rep("!", MaxToolNameLen + 2) }

InitSan ==
    /\ sanName \in ShortNames \cup LongNames
    /\ sanOnce = <<>> /\ sanTwice = <<>>
    /\ pcZ = "ready"
    /\ NamesIdle /\ StreamIdle /\ TransIdle /\ LoopIdle /\ CacheIdle /\ RegIdle /\ ReqIdle /\ ErrIdle /\ KeyIdle /\ OutIdle

\* sanitizeToolName(name)
SanitizeOnce ==
    /\ pcZ = "ready"
    /\ sanOnce' = sanitizeToolName(sanName)
    /\ pcZ' = "once"
    /\ UNCHANGED <<sanName, sanTwice>>
    /\ UNCHANGED otherThanSan

\* sanitizeToolName applied to the result of the first call
SanitizeAgain ==
    /\ pcZ = "once"
    /\ sanTwice' = sanitizeToolName(sanOnce)
    /\ pcZ' = "twice"
    /\ UNCHANGED <<sanName, sanOnce>>
    /\ UNCHANGED otherThanSan

NextSan == SanitizeOnce \/ SanitizeAgain

SpecSanitize == InitSan /\ [][NextSan]_vars

\* ------------------------------------------------------------------------
\* Claims about the Tool Name Adapter
\* ------------------------------------------------------------------------

\* C12: sanitizeToolName is idempotent; sanitizing a sanitized name yields the
\* same name, also for the empty name and for names longer than 128 characters.
C12_SanitizeIdempotent == pcZ = "twice" => sanTwice = sanOnce

\* a name longer than 128 characters with characters to escape was sanitized twice
C12_Witness ==
    /\ pcZ = "twice"
    /\ Len(sanName) > MaxToolNameLen
    /\ Len(sanOnce) = MaxToolNameLen
    /\ sanOnce # Slice(sanName, MaxToolNameLen)

\* the empty name fell back to "tool" and was sanitized again
C12_WitnessEmpty == pcZ = "twice" /\ sanName = <<>> /\ sanOnce = <<"t", "o", "o", "l">>

HostNamesDistinct == \A i, j \in 1..Len(tools) : tools[i] = tools[j] => i = j

\* toVsCode[toProvider[h]] = h for every host name h of the list
HostRoundTrip ==
    \A i \in 1..Len(tools) :
        /\ tools[i] \in DOMAIN toProvider
        /\ toProvider[tools[i]] \in DOMAIN toVsCode
        /\ toVsCode[toProvider[tools[i]]] = tools[i]

\* toProvider[toVsCode[p]] = p for every generated provider name p
ProviderRoundTrip ==
    \A p \in used :
        /\ p \in DOMAIN toVsCode
        /\ toVsCode[p] \in DOMAIN toProvider
        /\ toProvider[toVsCode[p]] = p

\* one provider name per tool of the list, no two of them equal
ProviderNamesDistinct == Cardinality(used) = Len(tools) /\ DOMAIN toVsCode = used

SanitizingRun(list) == pcN = "done" /\ needsSanitize(providerNpm) /\ tools = list

MapsPair(h1, p1, h2, p2) ==
    /\ toProvider = MapSet(MapSet(EmptyMap, h1, p1), h2, p2)
    /\ toVsCode = MapSet(MapSet(EmptyMap, p1, h1), p2, h2)

\* C2 as stated: under a sanitizing dialect "Get-Time" and "Get_Time" both
\* normalize to "Get_Time", the provider names are "Get_Time" and "Get_Time_1",
\* and each maps back to its host name.
C2_HyphenCollides ==
    SanitizingRun(<<GetDashTime, GetUnderTime>>) =>
        /\ sanitizeToolName(GetDashTime) = GetUnderTime
        /\ sanitizeToolName(GetUnderTime) = GetUnderTime
        /\ MapsPair(GetDashTime, GetUnderTime, GetUnderTime, GetUnderTime1)

\* C2 amended: under a sanitizing dialect the hyphen is an allowed character,
\* so ["Get-Time", "Get_Time"] keeps both names ("Get-Time", "Get_Time"); a
\* list such as ["Get.Time", "Get_Time"] is what normalizes twice to
\* "Get_Time" and yields "Get_Time" and "Get_Time_1"; in both lists each
\* provider name maps back to its original host name.
C2_HyphenKept ==
    /\ SanitizingRun(<<GetDashTime, GetUnderTime>>) =>
           /\ sanitizeToolName(GetDashTime) = GetDashTime
           /\ MapsPair(GetDashTime, GetDashTime, GetUnderTime, GetUnderTime)
    /\ SanitizingRun(<<GetDotTime, GetUnderTime>>) =>
           /\ sanitizeToolName(GetDotTime) = GetUnderTime
           /\ sanitizeToolName(GetUnderTime) = GetUnderTime
           /\ MapsPair(GetDotTime, GetUnderTime, GetUnderTime, GetUnderTime1)

\* C2 witness: the map of ["Get-Time", "Get_Time"] has been built under a
\* sanitizing dialect.
C2_Witness == SanitizingRun(<<GetDashTime, GetUnderTime>>) /\ Cardinality(used) = 2

\* C3 as stated, on the lists the host's unique-name invariant allows: the
\* collision loop terminates for every finite tool list, also for equal base
\* names of the maximum length, so every call of buildToolNameMap returns.
C3_LoopTerminates == HostNamesDistinct => <>(pcN = "done")

\* a name a provider with stricter identifiers accepts
StrictIdentifier(n) ==
    /\ Len(n) >= 1 /\ Len(n) <= 128
    /\ \A i \in 1..Len(n) : n[i] \in SafeChars

\* C34: under a dialect that requires stricter identifiers every provider
\* name generated by buildToolNameMap, including the names that received a
\* collision suffix, is non-empty, at most 128 characters long and made of
\* characters of [A-Za-z0-9_-] only.
C34_GeneratedNamesStrict ==
    needsSanitize(providerNpm) =>
        /\ \A p \in used : StrictIdentifier(p)
        /\ \A p \in DOMAIN toVsCode : StrictIdentifier(p)
        /\ \A h \in DOMAIN toProvider : StrictIdentifier(toProvider[h])

\* "Get.Time", "Get_Time" and the empty name under a sanitizing dialect gave
\* "Get_Time", "Get_Time_1" and "tool"
C34_Witness ==
    /\ SanitizingRun(<<GetDotTime, GetUnderTime, EmptyName>>)
    /\ used = {GetUnderTime, GetUnderTime1, <<"t", "o", "o", "l">>}
    /\ toProvider[GetUnderTime] = GetUnderTime1

\* ------------------------------------------------------------------------
\* Streaming Response Adapter: zenClient.ts, streamZen / wrapApiError, with
\* the callbacks of provider.ts, provideLanguageModelChatResponse
\* ------------------------------------------------------------------------

\* An error message is a sequence of tokens: the digits are tokens of their
\* own, a word with no digit in it is one token.  String.prototype.includes
\* looks for a pattern of consecutive tokens.
Includes(msg, pattern) ==
    \E i \in 1..(Len(msg) - Len(pattern) + 1) :
        SubSeq(msg, i, i + Len(pattern) - 1) = pattern

\* a pattern of tokens occurs in a message
HasTokens(msg, tokens) ==
    \E i \in 1..Len(msg) :
        /\ i + Len(tokens) - 1 <= Len(msg)
        /\ \A k \in 1..Len(tokens) : msg[i + k - 1] = tokens[k]

Code401 == <<"4", "0", "1">>
Code404 == <<"4", "0", "4">>

UnauthorizedMessage == <<"Unauthorized", "Please check your OpenCode API key">>
ModelNotFoundMessage == <<"Model not found", "The requested model may not be available">>
KeyNotSetMessage == <<"OpenCode Zen API key not set">>
KeyEmptyMessage == <<"OpenCode Zen API key is empty">>

\* err instanceof Error ? err.message : String(err)
BaseMessage(err) ==
    CASE err.kind = "Error" -> err.message
      [] err.kind = "string" -> err.message
      [] OTHER -> <<"[object Object]">>

\* a classification that looks for the 404 patterns first
wrapApiErrorNotFoundFirst(err) ==
    LET baseMessage == BaseMessage(err)
    IN  IF Includes(baseMessage, Code404) \/ Includes(baseMessage, <<"Not Found">>)
        THEN [kind |-> "Error", message |-> ModelNotFoundMessage]
        ELSE IF Includes(baseMessage, <<"Unauthorized">>) \/ Includes(baseMessage, Code401)
        THEN [kind |-> "Error", message |-> UnauthorizedMessage]
        ELSE [kind |-> "Error", message |-> baseMessage]

\* zenClient.ts 26-46: wrapApiError classifies by the message text alone, in this order
wrapApiError(err) ==
    LET baseMessage == BaseMessage(err)
    IN  IF Includes(baseMessage, <<"Unauthorized">>) \/ Includes(baseMessage, Code401)
        THEN [kind |-> "Error", message |-> UnauthorizedMessage]
        ELSE IF Includes(baseMessage, Code404) \/ Includes(baseMessage, <<"Not Found">>)
        THEN [kind |-> "Error", message |-> ModelNotFoundMessage]
        ELSE [kind |-> "Error", message |-> baseMessage]

\* what a provider stream can fail with
ErrorPool ==
    { [kind |-> "Error", message |-> <<"Unauthorized">>],
      [kind |-> "Error", message |-> <<"status">> \o Code404],
      [kind |-> "Error", message |-> <<"aborted">>],
      [kind |-> "object", message |-> <<>>] }

\* tokens of the failure messages handed to wrapApiError on its own
MessageTokens == { "4", "0", "1", "Unauthorized", "unauthorized", "Not Found", "failed" }

ShortMessages == UNION { [1..n -> MessageTokens] : n \in 0..MaxMessageTokens }

\* "40401" and "404401": the two status codes overlapping and side by side
OverlapMessages == { <<"4", "0", "4", "0", "1">>, Code404 \o Code401 }

\* what wrapApiError is handed: an Error, a string, an object without a message
Failures ==
    { [kind |-> k, message |-> msg] :
        k \in {"Error", "string"}, msg \in ShortMessages \cup OverlapMessages }
    \cup { [kind |-> "object", message |-> <<>>] }

InitErr ==
    /\ errIn \in Failures
    /\ errOut = <<>>
    /\ pcE = "ready"
    /\ NamesIdle /\ StreamIdle /\ TransIdle /\ LoopIdle /\ CacheIdle /\ SanIdle /\ RegIdle /\ ReqIdle /\ KeyIdle /\ OutIdle

\* wrapApiError(err)
Classify ==
    /\ pcE = "ready"
    /\ errOut' = <<wrapApiError(errIn)>>
    /\ pcE' = "wrapped"
    /\ UNCHANGED errIn
    /\ UNCHANGED otherThanErr

NextErr == Classify

SpecClassify == InitErr /\ [][NextErr]_vars

NoResponseText == "No response returned by model."

EmptyObject == "{}"

\* one part of result.fullStream
Event(type, text, toolName, input, error) ==
    [type |-> type, text |-> text, toolCallId |-> IF type = "tool-call" THEN "call1" ELSE Undefined,
     toolName |-> toolName, input |-> input, error |-> error]

NoError == [kind |-> "none", message |-> <<>>]

TextDeltas == { Event("text-delta", t, Undefined, Undefined, NoError) : t \in {"", "a", "\n"} }
ReasoningDeltas == { Event("reasoning-delta", t, Undefined, Undefined, NoError) : t \in {Undefined, "", "r"} }
ToolCallEvents ==
    { Event("tool-call", Undefined, n, i, NoError) :
        n \in {"P_tool", "P_other"}, i \in {Undefined, "{tz}"} }
ErrorEvents == { Event("error", Undefined, Undefined, Undefined, e) : e \in ErrorPool }
OtherEvents == { Event("finish", Undefined, Undefined, Undefined, NoError) }

\* the inverse name maps a request can carry (options.toolNameMap)
RequestNameMaps == { EmptyMap, MapSet(EmptyMap, "P_tool", "H tool") }

\* what the secret storage can hold
ApiKeys == { Undefined, "", " ", "key" }

\* String.prototype.trim() === ''
BlankKey(k) == k = "" \/ k = " "

TextCall(t, fallback) ==
    [cb |-> "onTextDelta", text |-> t, toolCallId |-> Undefined, toolName |-> Undefined,
     input |-> Undefined, fallback |-> fallback]

ToolCall(id, n, i) ==
    [cb |-> "onToolCall", text |-> Undefined, toolCallId |-> id, toolName |-> n,
     input |-> i, fallback |-> FALSE]

TextPart(v) == [part |-> "text", value |-> v, callId |-> Undefined, name |-> Undefined, input |-> Undefined]

ToolCallPart(id, n, i) == [part |-> "toolCall", value |-> Undefined, callId |-> id, name |-> n, input |-> i]

\* provider.ts 114-118: onTextDelta reports a text part unless the delta is empty
onTextDelta(sink, delta) == IF delta # "" THEN Append(sink, TextPart(delta)) ELSE sink

\* provider.ts 119-121: onToolCall reports a tool-call part
onToolCall(sink, id, n, i) == Append(sink, ToolCallPart(id, n, i))

\* zenClient.ts 216 with the two texts swapped
FallbackTextSwapped(saw) == IF saw THEN NoResponseText ELSE "\n"

\* zenClient.ts 216: sawAnyChunk ? '\n' : 'No response returned by model.'
FallbackText(saw) == IF saw THEN "\n" ELSE NoResponseText

\* zenClient.ts 173 with the length test dropped
TextEmitsAlways(t) == TRUE

\* zenClient.ts 173: part.text.length > 0
TextEmits(t) == t # ""

\* zenClient.ts 181 with the emptiness test dropped
ReasoningEmitsAlways(t) == TRUE

\* zenClient.ts 181: part.text && part.text.length > 0
ReasoningEmits(t) == t # Undefined /\ t # ""

\* the options of streamZen that reach the diagnostics of a failure; the
\* messages and the provider options are not carried by this component
StreamOptions ==
    { [providerNpm |-> Undefined, baseURL |-> Undefined, modelId |-> "m",
       tools |-> Undefined, toolMode |-> "required"],
      [providerNpm |-> "@ai-sdk/anthropic", baseURL |-> "https://api", modelId |-> "m",
       tools |-> "tools", toolMode |-> "required"],
      [providerNpm |-> "@ai-sdk/openai", baseURL |-> Undefined, modelId |-> "m",
       tools |-> "tools", toolMode |-> "auto"],
      [providerNpm |-> "@ai-sdk/openai-compatible", baseURL |-> "https://api", modelId |-> "m",
       tools |-> Undefined, toolMode |-> "auto"] }

ZEN_BASE_URL == "https://opencode.ai/zen/v1"

\* zenClient.ts 312-320
getEndpointPath(npm) ==
    IF npm = "@ai-sdk/anthropic" THEN "/messages"
    ELSE IF npm = "@ai-sdk/openai" THEN "/responses"
    ELSE "/chat/completions"

\* zenClient.ts 126-135, 157-163, 199-202 and 208-211: the second argument of
\* wrapApiError; the URL `${baseURL}${endpointPath}` is the pair of its parts
extraOf(options) ==
    LET baseURL == IF options.baseURL = Undefined THEN ZEN_BASE_URL ELSE options.baseURL
        npm == IF options.providerNpm = Undefined THEN "@ai-sdk/openai-compatible"
               ELSE options.providerNpm
    IN  [requestBody |-> [model |-> options.modelId,
                          tools |-> options.tools,
                          tool_choice |-> IF options.tools # Undefined THEN options.toolMode
                                          ELSE Undefined],
         url |-> <<baseURL, getEndpointPath(npm)>>]

\* zenClient.ts 48-87: the url and the request body a failure carries itself
\* (an API call error of the SDK carries the URL it called)
OwnDetails ==
    { EmptyMap,
      [url |-> <<"https://sdk", "/v1">>],
      [url |-> <<"https://sdk", "/v1">>, requestBody |-> [model |-> "sdk"]] }

\* the details with the failure's own fields written last
errorDetailsOwnLast(own, extra) ==
    [k \in (DOMAIN own) \cup (DOMAIN extra) |-> IF k \in DOMAIN own THEN own[k] ELSE extra[k]]

\* zenClient.ts 27: { ...extractErrorDetails(err), ...(extra ?? {}) }
errorDetails(own, extra) ==
    [k \in (DOMAIN own) \cup (DOMAIN extra) |-> IF k \in DOMAIN extra THEN extra[k] ELSE own[k]]

InitStream ==
    /\ apiKey \in ApiKeys
    /\ reqNameMap \in RequestNameMaps
    /\ received = <<>> /\ emitted = FALSE /\ sawAnyChunk = FALSE
    /\ calls = <<>> /\ progress = <<>> /\ thrown = <<>>
    /\ aborted = FALSE /\ streamCalls = 0
    /\ streamOptions \in StreamOptions /\ thrownDetails = <<>> /\ failure = <<>>
    /\ pcS = "start"
    /\ NamesIdle /\ TransIdle /\ LoopIdle /\ CacheIdle /\ SanIdle /\ RegIdle /\ ReqIdle /\ ErrIdle /\ KeyIdle /\ OutIdle

\* provider.ts 54-57 and zenClient.ts 122-124: the key checks before the stream;
\* zenClient.ts 137: the one call of streamText
ProvideStart ==
    /\ pcS = "start"
    /\ IF apiKey = Undefined \/ apiKey = ""
       THEN /\ pcS' = "failed"
            /\ thrown' = <<[kind |-> "Error", message |-> KeyNotSetMessage]>>
            /\ streamCalls' = streamCalls
       ELSE IF BlankKey(apiKey)
       THEN /\ pcS' = "failed"
            /\ thrown' = <<[kind |-> "Error", message |-> KeyEmptyMessage]>>
            /\ streamCalls' = streamCalls
       ELSE /\ pcS' = "streaming"
            /\ thrown' = thrown
            /\ streamCalls' = streamCalls + 1
    /\ UNCHANGED <<streamOptions, thrownDetails, failure>>
    /\ UNCHANGED <<apiKey, reqNameMap, aborted, received, emitted, sawAnyChunk, calls, progress>>
    /\ UNCHANGED otherThanStream

\* a text-delta handler that does not forward an empty delta
OnTextDeltaEventSkippingEmpty ==
    /\ pcS = "streaming" /\ Len(received) < MaxEvents
    /\ \E part \in TextDeltas :
        /\ received' = Append(received, part)
        /\ sawAnyChunk' = TRUE
        /\ emitted' = (emitted \/ TextEmits(part.text))
        /\ calls' = IF part.text = "" THEN calls ELSE Append(calls, TextCall(part.text, FALSE))
        /\ progress' = onTextDelta(progress, part.text)
    /\ UNCHANGED <<streamOptions, thrownDetails, failure>>
    /\ UNCHANGED <<apiKey, reqNameMap, aborted, streamCalls, thrown, pcS>>
    /\ UNCHANGED otherThanStream

\* zenClient.ts 170-176
OnTextDeltaEvent ==
    /\ pcS = "streaming" /\ Len(received) < MaxEvents
    /\ \E part \in TextDeltas :
        /\ received' = Append(received, part)
        /\ sawAnyChunk' = TRUE
        /\ emitted' = (emitted \/ TextEmits(part.text))
        /\ calls' = Append(calls, TextCall(part.text, FALSE))
        /\ progress' = onTextDelta(progress, part.text)
    /\ UNCHANGED <<streamOptions, thrownDetails, failure>>
    /\ UNCHANGED <<apiKey, reqNameMap, aborted, streamCalls, thrown, pcS>>
    /\ UNCHANGED otherThanStream

\* zenClient.ts 170, 180-186
OnReasoningDeltaEvent ==
    /\ pcS = "streaming" /\ Len(received) < MaxEvents
    /\ \E part \in ReasoningDeltas :
        /\ received' = Append(received, part)
        /\ sawAnyChunk' = TRUE
        /\ IF ReasoningEmits(part.text)
           THEN /\ emitted' = TRUE
                /\ calls' = Append(calls, TextCall(part.text, FALSE))
                /\ progress' = onTextDelta(progress, part.text)
           ELSE UNCHANGED <<emitted, calls, progress>>
    /\ UNCHANGED <<streamOptions, thrownDetails, failure>>
    /\ UNCHANGED <<apiKey, reqNameMap, aborted, streamCalls, thrown, pcS>>
    /\ UNCHANGED otherThanStream

\* a tool-call handler that hands the provider's name on as it came
OnToolCallOfUnmapped(parts, cap) ==
    /\ pcS = "streaming" /\ Len(received) < cap
    /\ \E part \in parts :
        LET input == IF part.input = Undefined THEN EmptyObject ELSE part.input
        IN  /\ received' = Append(received, part)
            /\ sawAnyChunk' = TRUE
            /\ emitted' = TRUE
            /\ calls' = Append(calls, ToolCall(part.toolCallId, part.toolName, input))
            /\ progress' = onToolCall(progress, part.toolCallId, part.toolName, input)
    /\ UNCHANGED <<streamOptions, thrownDetails, failure>>
    /\ UNCHANGED <<apiKey, reqNameMap, aborted, streamCalls, thrown, pcS>>
    /\ UNCHANGED otherThanStream

\* zenClient.ts 170, 188-196: the stream yields one of the given tool-call
\* parts while fewer than cap parts have been read
OnToolCallOf(parts, cap) ==
    /\ pcS = "streaming" /\ Len(received) < cap
    /\ \E part \in parts :
        LET hostName == mapToolName(part.toolName, reqNameMap)
            input == IF part.input = Undefined THEN EmptyObject ELSE part.input
        IN  /\ received' = Append(received, part)
            /\ sawAnyChunk' = TRUE
            /\ emitted' = TRUE
            /\ calls' = Append(calls, ToolCall(part.toolCallId, hostName, input))
            /\ progress' = onToolCall(progress, part.toolCallId, hostName, input)
    /\ UNCHANGED <<streamOptions, thrownDetails, failure>>
    /\ UNCHANGED <<apiKey, reqNameMap, aborted, streamCalls, thrown, pcS>>
    /\ UNCHANGED otherThanStream

\* zenClient.ts 170, 188-196
OnToolCallEvent == OnToolCallOf(ToolCallEvents, MaxEvents)

\* an error part that is recorded while the loop goes on reading
OnErrorEventSwallowed ==
    /\ pcS = "streaming" /\ Len(received) < MaxEvents
    /\ \E part \in ErrorEvents :
        /\ received' = Append(received, part)
        /\ sawAnyChunk' = TRUE
        /\ thrown' = <<wrapApiError(wrapApiError(part.error))>>
        /\ failure' = <<[via |-> "event", error |-> part.error]>>
        /\ \E own \in OwnDetails :
              thrownDetails' = <<errorDetails(errorDetails(own, extraOf(streamOptions)),
                                              extraOf(streamOptions))>>
    /\ pcS' = "streaming"
    /\ UNCHANGED streamOptions
    /\ UNCHANGED <<apiKey, reqNameMap, aborted, streamCalls, emitted, calls, progress>>
    /\ UNCHANGED otherThanStream

\* zenClient.ts 170, 198-203, caught and wrapped again at 207-212
OnErrorEvent ==
    /\ pcS = "streaming" /\ Len(received) < MaxEvents
    /\ \E part \in ErrorEvents :
        /\ received' = Append(received, part)
        /\ sawAnyChunk' = TRUE
        /\ thrown' = <<wrapApiError(wrapApiError(part.error))>>
        /\ failure' = <<[via |-> "event", error |-> part.error]>>
        /\ \E own \in OwnDetails :
              thrownDetails' = <<errorDetails(errorDetails(own, extraOf(streamOptions)),
                                              extraOf(streamOptions))>>
    /\ pcS' = "failed"
    /\ UNCHANGED streamOptions
    /\ UNCHANGED <<apiKey, reqNameMap, aborted, streamCalls, emitted, calls, progress>>
    /\ UNCHANGED otherThanStream

\* zenClient.ts 170, 205: finish and metadata parts are ignored
OnOtherEvent ==
    /\ pcS = "streaming" /\ Len(received) < MaxEvents
    /\ \E part \in OtherEvents :
        /\ received' = Append(received, part)
        /\ sawAnyChunk' = TRUE
    /\ UNCHANGED <<streamOptions, thrownDetails, failure>>
    /\ UNCHANGED <<apiKey, reqNameMap, aborted, streamCalls, emitted, calls, progress, thrown, pcS>>
    /\ UNCHANGED otherThanStream

\* zenClient.ts 207-212: the transport (or an abort) throws while the stream is read
OnTransportThrow ==
    /\ pcS = "streaming"
    /\ \E err \in ErrorPool :
        /\ thrown' = <<wrapApiError(err)>>
        /\ failure' = <<[via |-> "throw", error |-> err]>>
        /\ \E own \in OwnDetails :
              thrownDetails' = <<errorDetails(own, extraOf(streamOptions))>>
    /\ pcS' = "failed"
    /\ UNCHANGED streamOptions
    /\ UNCHANGED <<apiKey, reqNameMap, aborted, streamCalls, received, emitted, sawAnyChunk, calls, progress>>
    /\ UNCHANGED otherThanStream

\* an end of the stream that always delivers the fallback text
OnStreamEndAlwaysFallback ==
    /\ pcS = "streaming"
    /\ calls' = Append(calls, TextCall(FallbackText(sawAnyChunk), TRUE))
    /\ progress' = onTextDelta(progress, FallbackText(sawAnyChunk))
    /\ pcS' = "done"
    /\ UNCHANGED <<streamOptions, thrownDetails, failure>>
    /\ UNCHANGED <<apiKey, reqNameMap, aborted, streamCalls, received, emitted, sawAnyChunk, thrown>>
    /\ UNCHANGED otherThanStream

\* zenClient.ts 214-217: the stream ends normally
OnStreamEnd ==
    /\ pcS = "streaming"
    /\ IF ~emitted
       THEN /\ calls' = Append(calls, TextCall(FallbackText(sawAnyChunk), TRUE))
            /\ progress' = onTextDelta(progress, FallbackText(sawAnyChunk))
       ELSE UNCHANGED <<calls, progress>>
    /\ pcS' = "done"
    /\ UNCHANGED <<streamOptions, thrownDetails, failure>>
    /\ UNCHANGED <<apiKey, reqNameMap, aborted, streamCalls, received, emitted, sawAnyChunk, thrown>>
    /\ UNCHANGED otherThanStream

\* provider.ts 59-60: the host's cancellation token fires and the abort signal
\* handed to streamText is set; streamZen itself never reads the signal
OnCancellationRequested ==
    /\ pcS = "streaming"
    /\ ~aborted
    /\ aborted' = TRUE
    /\ UNCHANGED <<streamOptions, thrownDetails, failure>>
    /\ UNCHANGED <<apiKey, reqNameMap, streamCalls, received, emitted, sawAnyChunk, calls,
                   progress, thrown, pcS>>
    /\ UNCHANGED otherThanStream

NextStream ==
    \/ ProvideStart
    \/ OnCancellationRequested
    \/ OnTextDeltaEvent \/ OnReasoningDeltaEvent \/ OnToolCallEvent
    \/ OnErrorEvent \/ OnOtherEvent \/ OnTransportThrow \/ OnStreamEnd

SpecStream == InitStream /\ [][NextStream]_vars

\* a provider name that buildToolNameMap generates for no tool of the pool
UnknownProviderName == <<"x">>

\* the tool calls a provider can make in a request whose tools were named by
\* buildToolNameMap: on a generated name or on a name of its own
NamedToolCallEvents ==
    { Event("tool-call", Undefined, n, i, NoError) :
        n \in (DOMAIN toVsCode) \cup {UnknownProviderName}, i \in {Undefined, "{tz}"} }

\* provider.ts 64 and 109: the request streams with the inverse map that
\* buildToolNameMap returned
StreamWithNameMap ==
    /\ pcN = "done" /\ pcS = "idle"
    /\ apiKey' = "key"
    /\ reqNameMap' = toVsCode
    /\ streamOptions' = [NoStreamOptions EXCEPT !.providerNpm = providerNpm, !.modelId = "m"]
    /\ pcS' = "start"
    /\ UNCHANGED <<thrownDetails, failure>>
    /\ UNCHANGED <<aborted, streamCalls, received, emitted, sawAnyChunk, calls, progress, thrown>>
    /\ UNCHANGED otherThanStream

OnNamedToolCallEvent == OnToolCallOf(NamedToolCallEvents, MaxNamedCalls)

NextToolCalls ==
    \/ BuildStart \/ ForNextTool \/ WhileCollides \/ SuffixAttempt \/ RecordName
    \/ StreamWithNameMap
    \/ ProvideStart
    \/ OnNamedToolCallEvent
    \/ OnStreamEnd

\* buildToolNameMap followed by the streaming of the request it names the
\* tools of
SpecToolCalls == InitNames /\ [][NextToolCalls]_vars

\* ------------------------------------------------------------------------
\* Claims about the Streaming Response Adapter
\* ------------------------------------------------------------------------

CountOfType(type) == Cardinality({i \in 1..Len(received) : received[i].type = type})

NonEmptyReasoningSeen ==
    \E i \in 1..Len(received) :
        /\ received[i].type = "reasoning-delta"
        /\ received[i].text # Undefined /\ received[i].text # ""

FallbackCalls == {i \in 1..Len(calls) : calls[i].fallback}

EndedNormally == pcS = "done"

\* C4 as stated: a stream that ends normally with zero TextDelta and zero
\* ToolCallEvent events gets exactly one fallback text through onTextDelta.
C4_FallbackWithoutTextOrTool ==
    (EndedNormally /\ CountOfType("text-delta") = 0 /\ CountOfType("tool-call") = 0)
        => Cardinality(FallbackCalls) = 1

\* C4 amended: a stream that ends normally with zero TextDelta events, zero
\* ToolCallEvent events and no non-empty ReasoningDelta event gets exactly
\* one fallback text through onTextDelta.
C4_FallbackWithoutContent ==
    (EndedNormally /\ CountOfType("text-delta") = 0 /\ CountOfType("tool-call") = 0
        /\ ~NonEmptyReasoningSeen)
        => Cardinality(FallbackCalls) = 1

\* C4 witness: a stream of an empty reasoning delta and a finish part has
\* ended and the single callback made is the fallback.
C4_Witness ==
    /\ EndedNormally /\ Len(received) = 2
    /\ received[1].type = "reasoning-delta" /\ received[2].type = "finish"
    /\ Len(calls) = 1 /\ calls[1].fallback

\* C5: a delivered fallback is a single newline if at least one raw stream
\* event of any type was observed, and "No response returned by model." if
\* the stream was totally empty.
C5_FallbackText ==
    \A i \in FallbackCalls :
        calls[i].text = IF Len(received) > 0 THEN "\n" ELSE NoResponseText

\* C5 witness: the fallback was delivered after raw events had been seen.
C5_Witness == EndedNormally /\ FallbackCalls # {} /\ Len(received) = MaxEvents

ReportsContent(p) == (p.part = "text" /\ p.value # "") \/ p.part = "toolCall"

\* C6: a call of provideLanguageModelChatResponse that completes without
\* throwing has reported at least one non-empty text part or tool-call part,
\* whatever the stream held.
C6_NeverSilent ==
    EndedNormally => \E i \in 1..Len(progress) : ReportsContent(progress[i])

\* C6 witness: a stream of empty text deltas only has completed and the host
\* got the fallback newline as its only part.
C6_Witness ==
    /\ EndedNormally /\ Len(received) = MaxEvents
    /\ \A i \in 1..Len(received) : received[i].type = "text-delta" /\ received[i].text = ""
    /\ progress = <<TextPart("\n")>>

\* what the callbacks are to see of one received event: the callback and the
\* text or call id it is handed
ForwardedOf(e) ==
    CASE e.type = "text-delta" ->
            <<[cb |-> "onTextDelta", text |-> e.text, toolCallId |-> Undefined]>>
      [] e.type = "reasoning-delta" /\ e.text # Undefined /\ e.text # "" ->
            <<[cb |-> "onTextDelta", text |-> e.text, toolCallId |-> Undefined]>>
      [] e.type = "tool-call" ->
            <<[cb |-> "onToolCall", text |-> Undefined, toolCallId |-> e.toolCallId]>>
      [] OTHER -> <<>>

\* the callback invocations that are not the fallback, in order
ForwardedCalls ==
    LET real == SelectSeq(calls, LAMBDA c : ~c.fallback)
    IN  [i \in 1..Len(real) |->
            [cb |-> real[i].cb, text |-> real[i].text, toolCallId |-> real[i].toolCallId]]

\* C20: the callback invocations before any fallback are the received events
\* with ignored events and empty reasoning deltas removed, in the same order;
\* each TextDelta is forwarded verbatim, also when empty, and each non-empty
\* ReasoningDelta is forwarded as ordinary text.
C20_OrderPreserved ==
    ForwardedCalls = Flatten([i \in 1..Len(received) |-> ForwardedOf(received[i])])

\* an empty text delta, an empty reasoning delta and a non-empty reasoning
\* delta were received, and the stream ended with two callbacks made
C20_Witness ==
    /\ pcS = "done"
    /\ Len(received) = 3
    /\ received[1].type = "text-delta" /\ received[1].text = ""
    /\ received[2].type = "reasoning-delta" /\ received[2].text = ""
    /\ received[3].type = "reasoning-delta" /\ received[3].text = "r"
    /\ Len(calls) = 2

\* the text wrapApiError reads of a failure
FailureText(e) == IF e.kind = "object" THEN <<"[object Object]">> ELSE e.message

\* the message the classification of section 7 gives a failure
ClassifiedMessage(e) ==
    LET text == FailureText(e)
    IN  IF HasTokens(text, <<"Unauthorized">>) \/ HasTokens(text, <<"4", "0", "1">>)
        THEN UnauthorizedMessage
        ELSE IF HasTokens(text, <<"4", "0", "4">>) \/ HasTokens(text, <<"Not Found">>)
        THEN ModelNotFoundMessage
        ELSE text

\* the number of callbacks the received events call for
ForwardedCount ==
    Cardinality({i \in 1..Len(received) : ForwardedOf(received[i]) # <<>>})

\* C21: when the stream yields an Error event or the transport throws,
\* streamZen terminates: the Error event is the last event read, no callback
\* (text, tool call or fallback) is made after the failure, the call fails
\* with the classified error and never completes normally, and the error is
\* what provideLanguageModelChatResponse throws.
C21_FailureTerminates ==
    /\ \A i \in 1..Len(received) :
            received[i].type = "error" =>
                /\ i = Len(received)
                /\ pcS = "failed"
                /\ thrown = <<[kind |-> "Error", message |-> ClassifiedMessage(received[i].error)]>>
    /\ thrown # <<>> =>
            /\ pcS = "failed"
            /\ thrown[1].kind = "Error"
            /\ FallbackCalls = {}
            /\ Len(calls) = ForwardedCount
            /\ Len(progress) <= Len(calls)
            /\ received = <<>> \/ received[Len(received)].type = "error"
                    \/ \E e \in ErrorPool : thrown[1].message = ClassifiedMessage(e)
    /\ pcS = "done" => thrown = <<>>

\* a text delta was forwarded, then an Error event with a 404 message ended
\* the call with the ModelNotFound error and the one callback
C21_Witness ==
    /\ pcS = "failed" /\ Len(received) = 2
    /\ received[1].type = "text-delta" /\ received[1].text = "a"
    /\ received[2].type = "error" /\ received[2].error.message = <<"status">> \o Code404
    /\ Len(calls) = 1
    /\ thrown[1].message = ModelNotFoundMessage

\* the transport threw after a tool call had been forwarded
C21_WitnessTransport ==
    /\ pcS = "failed" /\ Len(received) = 1
    /\ received[1].type = "tool-call"
    /\ Len(calls) = 1
    /\ thrown[1].message = <<"aborted">>

\* C22: after the host's cancellation token has fired during a request, no
\* further provider request is issued, no callback is made any more, and the
\* request does not complete normally: it ends with a thrown error.
C22_CancelEndsRequest ==
    [][aborted => (streamCalls' = streamCalls /\ calls' = calls /\ pcS' # "done")]_vars

\* C22, the end of the request alone: a request whose token has fired never
\* completes normally.
C22_CancelledNeverDone == aborted => pcS # "done"

\* C22, the single attempt: streamText is called at most once per request.
C22_SingleAttempt == streamCalls <= 1

\* the callback made for the i-th received event
CallFor(i) == calls[Cardinality({j \in 1..i : ForwardedOf(received[j]) # <<>>})]

\* C26: every ToolCallEvent is forwarded to onToolCall with the provider tool
\* name replaced by the host name of the request's inverse name map, a
\* provider name that is not in the map is passed through unchanged, and a
\* missing input is replaced by an empty object; a tool call on the provider
\* name that buildToolNameMap generated for host tool h is delivered as h.
C26_ToolCallsReachHost ==
    \A i \in 1..Len(received) :
        received[i].type = "tool-call" =>
            LET e == received[i]
                c == CallFor(i)
            IN  /\ c.cb = "onToolCall" /\ c.toolCallId = e.toolCallId
                /\ c.toolName = IF e.toolName \in DOMAIN reqNameMap
                                 THEN reqNameMap[e.toolName] ELSE e.toolName
                /\ c.input = IF e.input = Undefined THEN EmptyObject ELSE e.input
                /\ \A h \in DOMAIN toProvider : e.toolName = toProvider[h] => c.toolName = h
                /\ \E k \in 1..Len(progress) :
                        progress[k] = ToolCallPart(c.toolCallId, c.toolName, c.input)

\* the tools "Get.Time" and "Get_Time" were named for a sanitizing dialect;
\* a call without input on "Get_Time", the name generated for "Get.Time",
\* reached the host as "Get.Time" with an empty object, and a call on a name
\* of the provider's own reached it unchanged
C26_Witness ==
    /\ pcS = "done" /\ needsSanitize(providerNpm)
    /\ tools = <<GetDotTime, GetUnderTime>>
    /\ Len(received) = 2 /\ Len(calls) = 2
    /\ received[1].toolName = GetUnderTime /\ received[1].input = Undefined
    /\ calls[1].toolName = GetDotTime /\ calls[1].input = EmptyObject
    /\ received[2].toolName = UnknownProviderName
    /\ calls[2].toolName = UnknownProviderName

\* a callback that forwarded content of the stream: a non-empty text or
\* reasoning delta, or a tool call
ForwardedContent(call) ==
    /\ ~call.fallback
    /\ call.cb = "onToolCall" \/ call.text # ""

\* C35: in streamZen the fallback text is delivered at most once per run,
\* only after the last stream event has been consumed, and never when a
\* non-empty text delta, a non-empty reasoning delta or a tool call was
\* forwarded during the run.
C35_FallbackOnceAtEnd ==
    \A i \in 1..Len(calls) :
        calls[i].fallback =>
            /\ pcS = "done"
            /\ i = Len(calls)
            /\ \A j \in 1..Len(calls) : ~ForwardedContent(calls[j])

\* an empty text delta, an empty reasoning delta and a finish part were
\* consumed; the empty delta was passed on and the fallback came last
C35_Witness ==
    /\ pcS = "done" /\ Len(received) = 3
    /\ \E i \in 1..3 : received[i].type = "reasoning-delta"
    /\ \E i \in 1..3 : received[i].type = "finish"
    /\ calls = <<TextCall("", FALSE), TextCall("\n", TRUE)>>

\* base endpoint plus the dialect's endpoint path
EffectiveUrl ==
    <<IF streamOptions.baseURL = Undefined THEN "https://opencode.ai/zen/v1"
      ELSE streamOptions.baseURL,
      CASE streamOptions.providerNpm = "@ai-sdk/anthropic" -> "/messages"
        [] streamOptions.providerNpm = "@ai-sdk/openai" -> "/responses"
        [] OTHER -> "/chat/completions">>

\* the request body streamZen put together for the call
AttemptedBody ==
    [model |-> streamOptions.modelId,
     tools |-> streamOptions.tools,
     tool_choice |-> IF streamOptions.tools = Undefined THEN Undefined
                     ELSE streamOptions.toolMode]

\* C36: the error finally thrown by streamZen has the same message and
\* classification whether the failure arrived as an Error stream event
\* (wrapped in the loop and again by the enclosing catch) or as a thrown
\* transport error: in both cases the message is the classification of the
\* failure's text alone, and the error carries the attempted request body and
\* the effective URL (base endpoint plus the dialect's endpoint path).
C36_SameErrorBothWays ==
    \A i \in 1..Len(failure) :
        /\ failure[i].via \in {"event", "throw"}
        /\ pcS = "failed"
        /\ thrown = <<[kind |-> "Error", message |-> ClassifiedMessage(failure[i].error)]>>
        /\ Len(thrownDetails) = 1
        /\ thrownDetails[1].requestBody = AttemptedBody
        /\ thrownDetails[1].url = EffectiveUrl

\* an Error event with a 404 message under the anthropic dialect, the failure
\* carrying a URL and a body of its own
C36_Witness ==
    /\ pcS = "failed" /\ Len(failure) = 1 /\ failure[1].via = "event"
    /\ failure[1].error = [kind |-> "Error", message |-> <<"status">> \o Code404]
    /\ thrown[1].message = ModelNotFoundMessage
    /\ streamOptions.providerNpm = "@ai-sdk/anthropic"
    /\ thrownDetails[1].url = <<"https://api", "/messages">>
    /\ thrownDetails[1].requestBody.tool_choice = "required"

\* the transport throws the same failure under the default dialect and base
\* endpoint
C36_WitnessThrow ==
    /\ pcS = "failed" /\ Len(failure) = 1 /\ failure[1].via = "throw"
    /\ failure[1].error = [kind |-> "Error", message |-> <<"status">> \o Code404]
    /\ thrown[1].message = ModelNotFoundMessage
    /\ streamOptions.providerNpm = Undefined
    /\ thrownDetails[1].url = <<"https://opencode.ai/zen/v1", "/chat/completions">>
    /\ thrownDetails[1].requestBody.tool_choice = Undefined

\* ------------------------------------------------------------------------
\* Message Translator: provider.ts, messagesToAiSdkMessages and its helpers
\* ------------------------------------------------------------------------

\* the parts of a vscode.LanguageModelChatRequestMessage
HostPart(kind, value, callId, toolName, mime, content) ==
    [kind |-> kind, value |-> value, callId |-> callId, name |-> toolName,
     mime |-> mime, content |-> content]

HostText(v) == HostPart("Text", v, Undefined, Undefined, Undefined, <<>>)
HostToolCall(id, n) == HostPart("ToolCall", "{}", id, n, Undefined, <<>>)
HostToolResult(id, content) == HostPart("ToolResult", Undefined, id, Undefined, Undefined, content)
HostData(mime, data) == HostPart("Data", data, Undefined, Undefined, mime, <<>>)
HostTsx(v) == HostPart("PromptTsx", v, Undefined, Undefined, Undefined, <<>>)
HostUnknown == HostPart("Unknown", Undefined, Undefined, Undefined, Undefined, <<>>)

Turn(role, content) == [role |-> role, content |-> content]

\* mimeType.startsWith('text/') and mimeType.startsWith('image/')
TextMimes == {"text/plain"}
ImageMimes == {"image/png"}

NoOutput == [type |-> "none", value |-> "", items |-> <<>>]

\* a content item of an AI SDK message
SdkItem(type, text, callId, toolName, input, output, data, mimeType) ==
    [type |-> type, text |-> text, toolCallId |-> callId, toolName |-> toolName,
     input |-> input, output |-> output, data |-> data, mimeType |-> mimeType]

SdkText(t) == SdkItem("text", t, Undefined, Undefined, Undefined, NoOutput, Undefined, Undefined)

\* an item of a structured tool-result output
OutputItem(type, text, data, mediaType) ==
    [type |-> type, text |-> text, data |-> data, mediaType |-> mediaType]

\* Array.prototype.join('')
RECURSIVE Join(_)
Join(texts) == IF texts = <<>> THEN "" ELSE Head(texts) \o Join(Tail(texts))

\* a simplification that never collapses a non-empty list
simplifyTextOnlyContentKeepsList(parts) ==
    IF Len(parts) = 0 THEN [form |-> "string", text |-> "", items |-> <<>>]
    ELSE [form |-> "list", text |-> "", items |-> parts]

\* lines 245-254
simplifyTextOnlyContent(parts) ==
    IF Len(parts) = 0 THEN [form |-> "string", text |-> "", items |-> <<>>]
    ELSE IF \A i \in 1..Len(parts) : parts[i].type = "text"
    THEN [form |-> "string", text |-> Join([i \in 1..Len(parts) |-> parts[i].text]), items |-> <<>>]
    ELSE [form |-> "list", text |-> "", items |-> parts]

\* lines 256-273: nothing for the cache_control sentinel, else one item
dataPartToAiSdkPart(part) ==
    IF part.mime = "cache_control" THEN <<>>
    ELSE IF part.mime \in TextMimes THEN <<SdkText(part.value)>>
    ELSE IF part.mime \in ImageMimes
    THEN <<SdkItem("image", Undefined, Undefined, Undefined, Undefined, NoOutput, part.value, part.mime)>>
    ELSE <<SdkItem("file", Undefined, Undefined, Undefined, Undefined, NoOutput, part.value, part.mime)>>

\* lines 281-315: the items one nested part contributes
ToolResultContentItems(part) ==
    CASE part.kind = "Text" -> <<OutputItem("text", part.value, Undefined, Undefined)>>
      [] part.kind = "PromptTsx" -> <<OutputItem("text", part.value, Undefined, Undefined)>>
      [] part.kind = "Data" ->
            IF part.mime = "cache_control" THEN <<>>
            ELSE IF part.mime \in TextMimes
            THEN <<OutputItem("text", part.value, Undefined, Undefined)>>
            ELSE IF part.mime \in ImageMimes
            THEN <<OutputItem("image-data", Undefined, part.value, part.mime)>>
            ELSE <<OutputItem("file-data", Undefined, part.value, part.mime)>>
      [] part.kind = "Undefined" -> <<>>
      [] OTHER -> <<OutputItem("custom", Undefined, part.kind, Undefined)>>

\* a conversion that keeps every non-empty result as a structured list
languageModelToolResultContentAsList(content) ==
    LET parts == Flatten([i \in 1..Len(content) |-> ToolResultContentItems(content[i])])
    IN  IF Len(parts) = 0 THEN [type |-> "text", value |-> "", items |-> <<>>]
        ELSE [type |-> "content", value |-> "", items |-> parts]

\* lines 275-326
languageModelToolResultContentToOutput(content) ==
    LET parts == Flatten([i \in 1..Len(content) |-> ToolResultContentItems(content[i])])
    IN  IF Len(parts) = 0 THEN [type |-> "text", value |-> "", items |-> <<>>]
        ELSE IF \A i \in 1..Len(parts) : parts[i].type = "text"
        THEN [type |-> "text", value |-> Join([i \in 1..Len(parts) |-> parts[i].text]),
              items |-> <<>>]
        ELSE [type |-> "content", value |-> "", items |-> parts]

\* lines 149-156: the last tool call of each call id, over all messages
RECURSIVE CallIdMap(_, _)
CallIdMap(parts, nameMap) ==
    IF parts = <<>> THEN EmptyMap
    ELSE LET before == CallIdMap(SubSeq(parts, 1, Len(parts) - 1), nameMap)
             part == parts[Len(parts)]
         IN  IF part.kind = "ToolCall"
             THEN MapSet(before, part.callId, mapToolName(part.name, nameMap))
             ELSE before

AllParts(messages) == Flatten([i \in 1..Len(messages) |-> messages[i].content])

toolNameByCallId(messages, nameMap) == CallIdMap(AllParts(messages), nameMap)

\* lines 180-188, 212-224: what a part adds to the user content
UserContentItems(part) ==
    CASE part.kind = "Text" -> <<SdkText(part.value)>>
      [] part.kind = "Data" -> dataPartToAiSdkPart(part)
      [] OTHER -> <<>>

\* lines 180-199, 212-224: what a part adds to the assistant content
AssistantContentItems(part, nameMap) ==
    CASE part.kind = "Text" -> <<SdkText(part.value)>>
      [] part.kind = "ToolCall" ->
            <<SdkItem("tool-call", Undefined, part.callId, mapToolName(part.name, nameMap),
                      part.value, NoOutput, Undefined, Undefined)>>
      [] part.kind = "Data" -> dataPartToAiSdkPart(part)
      [] OTHER -> <<>>

\* lines 201-210: what a part adds to the tool results
ToolResultItems(part, byCallId, nameMap) ==
    IF part.kind = "ToolResult"
    THEN <<SdkItem("tool-result", Undefined, part.callId,
                   IF part.callId \in DOMAIN byCallId THEN byCallId[part.callId]
                   ELSE mapToolName("unknown", nameMap),
                   Undefined, languageModelToolResultContentToOutput(part.content),
                   Undefined, Undefined)>>
    ELSE <<>>

SdkMessage(role, content) == [role |-> role, content |-> content]

\* a translation of one turn that puts the tool results before the user content
mapVsCodeMessageToolResultsFirst(message, byCallId, nameMap) ==
    LET parts == message.content
        isUser == message.role = "User"
        userParts == Flatten([i \in 1..Len(parts) |-> UserContentItems(parts[i])])
        assistantParts == Flatten([i \in 1..Len(parts) |-> AssistantContentItems(parts[i], nameMap)])
        toolResultParts == Flatten([i \in 1..Len(parts) |-> ToolResultItems(parts[i], byCallId, nameMap)])
    IN  IF isUser
        THEN (IF Len(toolResultParts) > 0
              THEN <<SdkMessage("tool", [form |-> "list", text |-> "", items |-> toolResultParts])>>
              ELSE <<>>)
             \o (IF Len(userParts) > 0
                 THEN <<SdkMessage("user", simplifyTextOnlyContent(userParts))>> ELSE <<>>)
        ELSE <<SdkMessage("assistant", simplifyTextOnlyContent(assistantParts))>>

\* lines 168-243
mapVsCodeMessageToAiSdkMessages(message, byCallId, nameMap) ==
    LET parts == message.content
        isUser == message.role = "User"
        userParts == Flatten([i \in 1..Len(parts) |-> UserContentItems(parts[i])])
        assistantParts == Flatten([i \in 1..Len(parts) |-> AssistantContentItems(parts[i], nameMap)])
        toolResultParts == Flatten([i \in 1..Len(parts) |-> ToolResultItems(parts[i], byCallId, nameMap)])
    IN  IF isUser
        THEN (IF Len(userParts) > 0
              THEN <<SdkMessage("user", simplifyTextOnlyContent(userParts))>> ELSE <<>>)
             \o (IF Len(toolResultParts) > 0
                 THEN <<SdkMessage("tool", [form |-> "list", text |-> "", items |-> toolResultParts])>>
                 ELSE <<>>)
        ELSE <<SdkMessage("assistant", simplifyTextOnlyContent(assistantParts))>>

\* lines 143-166
messagesToAiSdkMessages(messages, nameMap) ==
    LET byCallId == toolNameByCallId(messages, nameMap)
    IN  Flatten([i \in 1..Len(messages) |->
                    mapVsCodeMessageToAiSdkMessages(messages[i], byCallId, nameMap)])

ResultOfX == HostToolResult("X", <<HostText("r")>>)

\* the contents a turn of the conversation is drawn from
ContentPool ==
    { <<>>,
      <<HostText("a"), HostText("b")>>,
      <<HostToolCall("X", "A")>>,
      <<HostToolCall("X", "B")>>,
      <<HostToolCall("Y", "A"), HostToolCall("X", "A")>>,
      <<ResultOfX>>,
      <<HostText("a"), ResultOfX>>,
      <<HostToolResult("Z", <<HostText("r"), HostData("image/png", "img")>>)>>,
      <<HostText("a"), HostData("image/png", "img")>>,
      <<HostData("cache_control", "meta"), HostUnknown>>,
      <<HostText("a"), HostData("text/plain", "t"), HostData("cache_control", "meta")>>,
      <<ResultOfX, HostText("a"), HostData("application/pdf", "doc")>>,
      <<HostData("cache_control", "meta"), ResultOfX>>,
      <<HostText("")>> }

TurnPool == { Turn(r, c) : r \in {"User", "Assistant"}, c \in ContentPool }

Conversations == UNION { [1..n -> TurnPool] : n \in 0..MaxTurns }

\* the host-to-provider name maps of a request (toolNameMap.toProvider)
TransNameMaps == { EmptyMap, MapSet(MapSet(EmptyMap, "A", "A_p"), "unknown", "unknown_p") }

InitTrans ==
    /\ conversation \in Conversations
    /\ transNameMap \in TransNameMaps
    /\ outMessages = <<>>
    /\ pcT = "ready"
    /\ NamesIdle /\ StreamIdle /\ LoopIdle /\ CacheIdle /\ SanIdle /\ RegIdle /\ ReqIdle /\ ErrIdle /\ KeyIdle /\ OutIdle

\* provider.ts 66: coreMessages = messagesToAiSdkMessages(messages, toProvider)
Translate ==
    /\ pcT = "ready"
    /\ outMessages' = messagesToAiSdkMessages(conversation, transNameMap)
    /\ pcT' = "done"
    /\ UNCHANGED <<conversation, transNameMap>>
    /\ UNCHANGED otherThanTrans

NextTrans == Translate

SpecTranslate == InitTrans /\ [][NextTrans]_vars

\* ------------------------------------------------------------------------
\* Claims about the Message Translator
\* ------------------------------------------------------------------------

\* every part of the conversation with the role of its turn, in order
PartsWithRole ==
    Flatten([t \in 1..Len(conversation) |->
                [k \in 1..Len(conversation[t].content) |->
                    [role |-> conversation[t].role, part |-> conversation[t].content[k]]]])

IsUserToolResult(e) == e.role = "User" /\ e.part.kind = "ToolResult"

\* the positions in PartsWithRole of the tool results the translation emits
RECURSIVE IndicesWhere(_, _)
IndicesWhere(flat, n) ==
    IF n = 0 THEN <<>>
    ELSE IndicesWhere(flat, n - 1) \o (IF IsUserToolResult(flat[n]) THEN <<n>> ELSE <<>>)

EmittedResultPositions == IndicesWhere(PartsWithRole, Len(PartsWithRole))

\* the tool-result items of the emitted tool messages, in order
EmittedResultItems ==
    Flatten([i \in 1..Len(outMessages) |->
                IF outMessages[i].role = "tool" THEN outMessages[i].content.items ELSE <<>>])

EarlierCalls(pos) ==
    {q \in 1..(pos - 1) : /\ PartsWithRole[q].part.kind = "ToolCall"
                          /\ PartsWithRole[q].part.callId = PartsWithRole[pos].part.callId}

Latest(S) == CHOOSE q \in S : \A r \in S : r <= q

\* tool calls are assistant-authored and tool results user-authored
WellFormedConversation ==
    \A q \in 1..Len(PartsWithRole) :
        /\ PartsWithRole[q].part.kind = "ToolCall" => PartsWithRole[q].role = "Assistant"
        /\ PartsWithRole[q].part.kind = "ToolResult" => PartsWithRole[q].role = "User"

\* C7 as stated, on conversations whose tool calls are assistant-authored and
\* whose tool results are user-authored: a tool result gets the mapped name
\* of the most recent tool call with its call id that occurs earlier in the
\* conversation; tool calls that occur later do not change it.
C7_ResultNamedByEarlierCall ==
    (pcT = "done" /\ WellFormedConversation) =>
        /\ Len(EmittedResultItems) = Len(EmittedResultPositions)
        /\ \A j \in 1..Len(EmittedResultPositions) :
              LET pos == EmittedResultPositions[j]
              IN  EarlierCalls(pos) # {} =>
                    EmittedResultItems[j].toolName =
                        mapToolName(PartsWithRole[Latest(EarlierCalls(pos))].part.name, transNameMap)

\* a part that adds an item to the content of a message of its turn's role
Contributes(role, part) ==
    \/ part.kind = "Text"
    \/ part.kind = "Data" /\ part.mime # "cache_control"
    \/ part.kind = "ToolCall" /\ role = "Assistant"

IsPlainText(part) ==
    \/ part.kind = "Text"
    \/ part.kind = "Data" /\ part.mime \in TextMimes

Contributing(t) ==
    SelectSeq(conversation[t].content, LAMBDA p : Contributes(conversation[t].role, p))

\* the turns that emit a user or assistant message, in order
ContentTurns ==
    SelectSeq([t \in 1..Len(conversation) |-> t],
              LAMBDA t : conversation[t].role = "Assistant" \/ Len(Contributing(t)) > 0)

\* the emitted user and assistant messages, in order
ContentMessages == SelectSeq(outMessages, LAMBDA m : m.role # "tool")

ItemTypeOf(part) ==
    CASE part.kind = "Text" -> "text"
      [] part.kind = "ToolCall" -> "tool-call"
      [] part.kind = "Data" /\ part.mime \in TextMimes -> "text"
      [] part.kind = "Data" /\ part.mime \in ImageMimes -> "image"
      [] OTHER -> "file"

\* C11: an emitted user or assistant message has string content exactly when
\* all of its content items are plain text, the string being the
\* concatenation of the items in order; otherwise the content is a list with
\* one item per contributing part, in order.
C11_StringIffAllText ==
    pcT = "done" =>
        /\ Len(ContentMessages) = Len(ContentTurns)
        /\ \A j \in 1..Len(ContentTurns) :
              LET parts == Contributing(ContentTurns[j])
                  content == ContentMessages[j].content
                  allText == \A k \in 1..Len(parts) : IsPlainText(parts[k])
              IN  /\ (content.form = "string") <=> allText
                  /\ allText => content.text = Join([k \in 1..Len(parts) |-> parts[k].value])
                  /\ ~allText =>
                        /\ Len(content.items) = Len(parts)
                        /\ \A k \in 1..Len(parts) : content.items[k].type = ItemTypeOf(parts[k])

\* a User turn with the text parts "a","b" became the string "ab", and a User
\* turn of a text and an image became a list of two items
C11_Witness ==
    /\ pcT = "done"
    /\ \E i, j \in 1..Len(conversation) :
          /\ conversation[i] = Turn("User", <<HostText("a"), HostText("b")>>)
          /\ conversation[j] = Turn("User", <<HostText("a"), HostData("image/png", "img")>>)
    /\ \E m, n \in 1..Len(outMessages) :
          /\ outMessages[m].role = "user" /\ outMessages[m].content.form = "string"
          /\ outMessages[m].content.text = "ab"
          /\ outMessages[n].role = "user" /\ outMessages[n].content.form = "list"
          /\ Len(outMessages[n].content.items) = 2

\* a turn whose content is empty or holds only parts the translation drops:
\* the cache_control sentinel and unknown parts
NoContentTurn(turn) ==
    \A k \in 1..Len(turn.content) :
        \/ turn.content[k].kind = "Unknown"
        \/ turn.content[k].kind = "Data" /\ turn.content[k].mime = "cache_control"

\* C18: a turn that produces no content emits no provider message, whether it
\* is a User or an Assistant turn; a conversation of such turns translates to
\* no message at all.
C18_NoContentEmitsNothing ==
    (pcT = "done" /\ \A t \in 1..Len(conversation) : NoContentTurn(conversation[t]))
        => outMessages = <<>>

\* the roles of the messages a turn is to yield, in order
ExpectedRoles(turn) ==
    IF turn.role = "Assistant" THEN <<"assistant">>
    ELSE (IF \E k \in 1..Len(turn.content) : Contributes("User", turn.content[k])
          THEN <<"user">> ELSE <<>>)
         \o (IF \E k \in 1..Len(turn.content) : turn.content[k].kind = "ToolResult"
             THEN <<"tool">> ELSE <<>>)

\* the User turns that carry a tool result, in order
ToolResultTurns ==
    SelectSeq([t \in 1..Len(conversation) |-> t],
              LAMBDA t : /\ conversation[t].role = "User"
                         /\ \E k \in 1..Len(conversation[t].content) :
                               conversation[t].content[k].kind = "ToolResult")

ToolMessages == SelectSeq(outMessages, LAMBDA m : m.role = "tool")

\* C19: the output is the concatenation, in conversation order, of each turn's
\* messages; a User turn yields its user-content message first (only if it has
\* content items) and then its tool-result message (only if it has tool
\* results), whatever the order of its parts; an Assistant turn yields a
\* single assistant message.
C19_OrderKept ==
    pcT = "done" =>
        /\ [i \in 1..Len(outMessages) |-> outMessages[i].role]
             = Flatten([t \in 1..Len(conversation) |-> ExpectedRoles(conversation[t])])
        /\ Len(ToolMessages) = Len(ToolResultTurns)
        /\ \A j \in 1..Len(ToolResultTurns) :
              LET results == SelectSeq(conversation[ToolResultTurns[j]].content,
                                       LAMBDA p : p.kind = "ToolResult")
                  items == ToolMessages[j].content.items
              IN  /\ Len(items) = Len(results)
                  /\ \A k \in 1..Len(results) : items[k].toolCallId = results[k].callId

\* a User turn whose tool result precedes its text, between two Assistant
\* turns, became a user message followed by a tool message
C19_Witness ==
    /\ pcT = "done"
    /\ Len(conversation) = 3
    /\ conversation[1].role = "Assistant" /\ conversation[3].role = "Assistant"
    /\ conversation[2] =
          Turn("User", <<ResultOfX, HostText("a"), HostData("application/pdf", "doc")>>)
    /\ [i \in 1..Len(outMessages) |-> outMessages[i].role]
          = <<"assistant", "user", "tool", "assistant">>

\* the parts of the conversation of one kind, in order
PartsOfKind(kinds) ==
    SelectSeq([q \in 1..Len(PartsWithRole) |-> PartsWithRole[q].part],
              LAMBDA p : p.kind \in kinds)

\* the content items of the emitted messages, in order; a string content is
\* one text item
EmittedItems ==
    Flatten([i \in 1..Len(outMessages) |->
                IF outMessages[i].content.form = "string"
                THEN <<SdkText(outMessages[i].content.text)>>
                ELSE outMessages[i].content.items])

EmittedOfTypes(types) == SelectSeq(EmittedItems, LAMBDA item : item.type \in types)

\* C40: message translation loses no content: every Text, ToolCall,
\* ToolResult and non-sentinel Data part of every turn of the input
\* conversation appears in exactly one emitted provider message, whatever the
\* role of the turn that carries it (including a ToolCall inside a User turn
\* and a ToolResult inside an Assistant turn).
C40_NoContentLost ==
    pcT = "done" =>
        LET plainParts == SelectSeq(PartsOfKind({"Text", "Data"}), IsPlainText)
            callParts == PartsOfKind({"ToolCall"})
            resultParts == PartsOfKind({"ToolResult"})
            mediaParts == SelectSeq(PartsOfKind({"Data"}),
                               LAMBDA p : p.mime # "cache_control" /\ ~IsPlainText(p))
        IN  /\ Join([k \in 1..Len(EmittedOfTypes({"text"})) |-> EmittedOfTypes({"text"})[k].text])
                 = Join([k \in 1..Len(plainParts) |-> plainParts[k].value])
            /\ [k \in 1..Len(EmittedOfTypes({"tool-call"})) |->
                    EmittedOfTypes({"tool-call"})[k].toolCallId]
                 = [k \in 1..Len(callParts) |-> callParts[k].callId]
            /\ [k \in 1..Len(EmittedOfTypes({"tool-result"})) |->
                    EmittedOfTypes({"tool-result"})[k].toolCallId]
                 = [k \in 1..Len(resultParts) |-> resultParts[k].callId]
            /\ [k \in 1..Len(EmittedOfTypes({"image", "file"})) |->
                    EmittedOfTypes({"image", "file"})[k].data]
                 = [k \in 1..Len(mediaParts) |-> mediaParts[k].value]

\* C40 on conversations whose tool calls are assistant-authored and whose
\* tool results are user-authored
C40_NoContentLostWellFormed == WellFormedConversation => C40_NoContentLost

\* ------------------------------------------------------------------------
\* Tool Round-Trip Driver: extension.ts, runToolLoop
\* ------------------------------------------------------------------------

\* for (let i = 0; i < 5; i++)
MaxIterations == 5

SELF_TEST_TOOL_NAME == "opencodeZen.selfTest.getTime"

\* the loop test with an off-by-one
LoopContinuesInclusive(i) == i <= MaxIterations

\* line 272: i < 5
LoopContinues(i) == i < MaxIterations

\* the name test dropped: every tool call is answered
AnyToolExpected(n) == TRUE

\* line 324: call.name !== SELF_TEST_TOOL_NAME fails the run
IsExpectedTool(n) == n = SELF_TEST_TOOL_NAME

IterationLimitError == [kind |-> "Error", message |-> <<"Self-test exceeded max tool-call iterations (5).">>]

UnexpectedToolCallError(n) == [kind |-> "Error", message |-> <<"Unexpected tool call: ", n>>]

\* the response streams a request can yield (text, tool-call and data parts)
StreamedText == HostText("t")
ExpectedCall(id) == HostToolCall(id, SELF_TEST_TOOL_NAME)
OtherCall(id) == HostToolCall(id, "otherTool")

ResponsePool ==
    { <<>>,
      <<StreamedText>>,
      <<HostData("image/png", "img")>>,
      <<ExpectedCall("c1")>>,
      <<StreamedText, ExpectedCall("c1")>>,
      <<ExpectedCall("c1"), ExpectedCall("c2")>>,
      <<OtherCall("c1")>>,
      <<ExpectedCall("c1"), OtherCall("c2")>>,
      <<OtherCall("c1"), ExpectedCall("c2")>> }

\* lines 291-315: the tool calls of the stream, in order
ToolCallsOf(resp) == SelectSeq(resp, LAMBDA part : part.kind = "ToolCall")

\* lines 328-331: the tool-result turn that answers a call
ToolResultTurn(call) == Turn("User", <<HostToolResult(call.callId, <<HostText("now")>>)>>)

\* lines 323-333: the turns pushed for the calls before the first unexpected one
RECURSIVE AnsweredTurns(_)
AnsweredTurns(toolCalls) ==
    IF toolCalls = <<>> \/ ~IsExpectedTool(Head(toolCalls).name) THEN <<>>
    ELSE <<ToolResultTurn(Head(toolCalls))>> \o AnsweredTurns(Tail(toolCalls))

\* lines 324-326: the error of the first unexpected call, if there is one
RECURSIVE FirstUnexpected(_)
FirstUnexpected(toolCalls) ==
    IF toolCalls = <<>> THEN <<>>
    ELSE IF ~IsExpectedTool(Head(toolCalls).name)
    THEN <<UnexpectedToolCallError(Head(toolCalls).name)>>
    ELSE FirstUnexpected(Tail(toolCalls))

SelfTestPrompt ==
    Turn("User", <<HostText("Call the provided tool once, then explain what you did.")>>)

InitLoop ==
    /\ loopI = 0 /\ requests = 0
    /\ loopMessages = <<SelfTestPrompt>>
    /\ responses = <<>> /\ loopError = <<>>
    /\ pcL = "for"
    /\ NamesIdle /\ StreamIdle /\ TransIdle /\ CacheIdle /\ SanIdle /\ RegIdle /\ ReqIdle /\ ErrIdle /\ KeyIdle /\ OutIdle

\* line 272 and, when the loop is exhausted, line 336
LoopTest ==
    /\ pcL = "for"
    /\ IF LoopContinues(loopI)
       THEN pcL' = "request" /\ loopError' = loopError
       ELSE pcL' = "done" /\ loopError' = <<IterationLimitError>>
    /\ UNCHANGED <<loopI, requests, loopMessages, responses>>
    /\ UNCHANGED otherThanLoop

\* lines 273-333: one iteration whose request and stream succeed
LoopIteration ==
    /\ pcL = "request"
    /\ \E resp \in ResponsePool :
        LET toolCalls == ToolCallsOf(resp)
            pushed == Append(loopMessages, Turn("Assistant", resp))
        IN  /\ requests' = requests + 1
            /\ responses' = Append(responses, resp)
            /\ IF Len(toolCalls) = 0
               THEN /\ loopMessages' = pushed
                    /\ pcL' = "done" /\ loopError' = loopError /\ loopI' = loopI
               ELSE /\ loopMessages' = pushed \o AnsweredTurns(toolCalls)
                    /\ loopError' = FirstUnexpected(toolCalls)
                    /\ IF loopError' # <<>>
                       THEN pcL' = "done" /\ loopI' = loopI
                       ELSE pcL' = "for" /\ loopI' = loopI + 1
    /\ UNCHANGED otherThanLoop

\* lines 276-315: sendRequest or the response stream rejects
LoopRequestFails ==
    /\ pcL = "request"
    /\ requests' = requests + 1
    /\ \E err \in ErrorPool : loopError' = <<wrapApiError(err)>>
    /\ pcL' = "done"
    /\ UNCHANGED <<loopI, loopMessages, responses>>
    /\ UNCHANGED otherThanLoop

NextLoop == LoopTest \/ LoopIteration \/ LoopRequestFails

SpecToolLoop == InitLoop /\ [][NextLoop]_vars

\* ------------------------------------------------------------------------
\* Claims about the Tool Round-Trip Driver
\* ------------------------------------------------------------------------

CallNames(resp) == {resp[i].name : i \in {k \in 1..Len(resp) : resp[k].kind = "ToolCall"}}

HasNoToolCall(resp) == CallNames(resp) = {}

OnlyExpectedCalls(resp) == CallNames(resp) = {SELF_TEST_TOOL_NAME}

HasUnexpectedCall(resp) == CallNames(resp) \ {SELF_TEST_TOOL_NAME} # {}

ReturnedSuccessfully == pcL = "done" /\ loopError = <<>>

\* C8: runToolLoop issues at most 5 requests; when iteration k is the first
\* with zero tool calls it returns successfully after exactly k requests; when
\* all five iterations yield expected tool calls it fails with the
\* iteration-limit error after exactly 5 requests.
C8_BoundedRequests ==
    /\ requests <= 5
    /\ \A k \in 1..Len(responses) :
          HasNoToolCall(responses[k]) =>
              ReturnedSuccessfully /\ requests = k /\ Len(responses) = k
    /\ ReturnedSuccessfully =>
          /\ requests = Len(responses) /\ requests \in 1..5
          /\ HasNoToolCall(responses[requests])
    /\ (pcL = "done" /\ Len(responses) = 5
            /\ \A k \in 1..5 : OnlyExpectedCalls(responses[k]))
          => loopError = <<IterationLimitError>> /\ requests = 5
    /\ loopError = <<IterationLimitError>> =>
          /\ requests = 5 /\ Len(responses) = 5
          /\ \A k \in 1..5 : OnlyExpectedCalls(responses[k])

\* C8 witness: five iterations of expected tool calls have ended in the
\* iteration-limit error.
C8_Witness == pcL = "done" /\ loopError = <<IterationLimitError>> /\ requests = 5

\* C9: a tool call with an unexpected name fails the run with an 'Unexpected
\* tool call' error, which is not the iteration-limit error, and the response
\* that carried it is the last request of the run.
C9_UnexpectedCallIsFatal ==
    \A k \in 1..Len(responses) :
        HasUnexpectedCall(responses[k]) =>
            /\ k = Len(responses) /\ requests = k /\ pcL = "done"
            /\ \E n \in CallNames(responses[k]) \ {SELF_TEST_TOOL_NAME} :
                  loopError = <<UnexpectedToolCallError(n)>>
            /\ loopError # <<IterationLimitError>>

\* C9 witness: the second response carried an expected call followed by an
\* unexpected one and the run has failed.
C9_Witness ==
    /\ pcL = "done" /\ requests = 2 /\ Len(responses) = 2
    /\ responses[2] = <<ExpectedCall("c1"), OtherCall("c2")>>
    /\ loopError = <<UnexpectedToolCallError("otherTool")>>

\* ------------------------------------------------------------------------
\* Prompt Cache Annotator: provider.ts, applyAnthropicCacheControl,
\* applyOpenAICompatibleCacheControl, removeOpenAICompatibleCacheControl
\* ------------------------------------------------------------------------

\* JavaScript values: undefined, null, a string, an object (keys to values)
JUndef == [t |-> "undefined"]
JNull == [t |-> "null"]
JStr(str) == [t |-> "string", s |-> str]
JObj(fields) == [t |-> "object", f |-> fields]

JTrue == [t |-> "boolean", b |-> TRUE]

Truthy(v) == v.t = "object" \/ (v.t = "string" /\ v.s # "") \/ (v.t = "boolean" /\ v.b)

\* value && typeof value === 'object'
IsObject(v) == v.t = "object"

\* v?.key
Get(v, key) == IF v.t = "object" /\ key \in DOMAIN v.f THEN v.f[key] ELSE JUndef

\* { ...a, ...b } of two objects
Spread(a, b) ==
    [k \in (DOMAIN a) \cup (DOMAIN b) |-> IF k \in DOMAIN b THEN b[k] ELSE a[k]]

\* lines 579-597
mergeProviderOptions(base, addition) ==
    IF ~IsObject(base) THEN addition
    ELSE JObj([k \in (DOMAIN base.f) \cup (DOMAIN addition.f) |->
                 IF k \notin DOMAIN addition.f THEN base.f[k]
                 ELSE IF k \in DOMAIN base.f /\ IsObject(base.f[k]) /\ IsObject(addition.f[k])
                 THEN JObj(Spread(base.f[k].f, addition.f[k].f))
                 ELSE addition.f[k]])

\* a provider message as the annotators see it: its role and providerOptions
CacheMessage(role, po) == [role |-> role, providerOptions |-> po]

\* { ...message, providerOptions }
WithProviderOptions(message, po) == [message EXCEPT !.providerOptions = po]

\* lines 513-522: the positions of the system messages and of the others
systemIndices(messages) ==
    SelectSeq([i \in 1..Len(messages) |-> i], LAMBDA i : messages[i].role = "system")

nonSystemIndices(messages) ==
    SelectSeq([i \in 1..Len(messages) |-> i], LAMBDA i : messages[i].role # "system")

FirstTwo(seq) == SubSeq(seq, 1, Min(2, Len(seq)))

LastTwo(seq) == SubSeq(seq, IF Len(seq) > 2 THEN Len(seq) - 1 ELSE 1, Len(seq))

Range(seq) == {seq[i] : i \in 1..Len(seq)}

\* a selection that passes over the messages that carry provider options
SelectedIndicesUnmarked(messages) ==
    Range(FirstTwo(SelectSeq(systemIndices(messages),
              LAMBDA i : ~IsObject(messages[i].providerOptions))))
    \cup Range(LastTwo(SelectSeq(nonSystemIndices(messages),
              LAMBDA i : ~IsObject(messages[i].providerOptions))))

\* lines 513-530: the first two system messages and the last two others
SelectedIndices(messages) ==
    Range(FirstTwo(systemIndices(messages))) \cup Range(LastTwo(nonSystemIndices(messages)))

\* lines 512-542; updated[i] is what the updater makes of messages[i]
applyCacheControlToMessages(messages, updated) ==
    LET selected == SelectedIndices(messages)
    IN  IF selected = {} THEN messages
        ELSE [i \in 1..Len(messages) |->
                 IF i \notin selected THEN messages[i] ELSE updated[i]]

\* an updater that sets the marker whatever the message carries
AnthropicUpdaterOverwriting(message, cacheControl) ==
    WithProviderOptions(message,
        mergeProviderOptions(message.providerOptions,
            JObj([anthropic |-> JObj([cacheControl |-> cacheControl])])))

\* lines 449-458
AnthropicUpdater(message, cacheControl) ==
    LET existing == Get(message.providerOptions, "anthropic")
    IN  IF Truthy(Get(existing, "cacheControl")) \/ Truthy(Get(existing, "cache_control"))
        THEN message
        ELSE WithProviderOptions(message,
                mergeProviderOptions(message.providerOptions,
                    JObj([anthropic |-> JObj([cacheControl |-> cacheControl])])))

\* lines 444-459
applyAnthropicCacheControl(messages, cacheControl) ==
    IF Len(messages) = 0 THEN messages
    ELSE applyCacheControlToMessages(messages,
            [i \in 1..Len(messages) |-> AnthropicUpdater(messages[i], cacheControl)])

Ephemeral == JObj([type |-> JStr("ephemeral")])

EphemeralTtl(ttl) == JObj([type |-> JStr("ephemeral"), ttl |-> JStr(ttl)])

\* lines 437-442
buildAnthropicCacheControl(ttl) == IF ttl = "none" THEN Ephemeral ELSE EphemeralTtl(ttl)

\* lines 466-477
OpenAICompatibleUpdater(message) ==
    LET existing == Get(message.providerOptions, "openaiCompatible")
    IN  IF Truthy(Get(existing, "cache_control"))
        THEN message
        ELSE WithProviderOptions(message,
                mergeProviderOptions(message.providerOptions,
                    JObj([openaiCompatible |-> JObj([cache_control |-> Ephemeral])])))

\* lines 461-478
applyOpenAICompatibleCacheControl(messages) ==
    IF Len(messages) = 0 THEN messages
    ELSE applyCacheControlToMessages(messages,
            [i \in 1..Len(messages) |-> OpenAICompatibleUpdater(messages[i])])

\* lines 486-502: the marker of a message is overwritten with undefined
StripMessage(message) ==
    LET providerOptions == Get(message.providerOptions, "openaiCompatible")
    IN  IF ~Truthy(providerOptions) \/ Get(providerOptions, "cache_control") = JUndef
        THEN message
        ELSE WithProviderOptions(message,
                mergeProviderOptions(message.providerOptions,
                    JObj([openaiCompatible |-> JObj([cache_control |-> JUndef])])))

\* lines 480-505
removeOpenAICompatibleCacheControl(messages) ==
    [i \in 1..Len(messages) |-> StripMessage(messages[i])]

\* the provider options the messages of the lists carry
ProviderOptionsPool ==
    { JUndef,
      JObj([anthropic |-> JObj([cacheControl |-> EphemeralTtl("1h")])]),
      JObj([anthropic |-> JObj([cache_control |-> Ephemeral])]),
      JObj([openaiCompatible |-> JObj([cache_control |-> Ephemeral])]),
      JObj([openaiCompatible |-> JObj([cache_control |-> JUndef, user |-> JStr("u")])]) }

CacheMessagePool ==
    { CacheMessage(r, po) : r \in {"system", "user"}, po \in ProviderOptionsPool }

CacheMessageLists == UNION { [1..n -> CacheMessagePool] : n \in 0..MaxMessages }

\* the annotators, the Anthropic one with each value of promptCaching.anthropicTtl
CacheOps ==
    { <<"applyAnthropic", "5m">>, <<"applyAnthropic", "none">>,
      <<"applyOpenAICompatible", "">>, <<"removeOpenAICompatible", "">> }

\* lines 77-88: the annotator a request runs on its messages
Annotate(op, messages) ==
    CASE op[1] = "applyAnthropic" ->
            applyAnthropicCacheControl(messages, buildAnthropicCacheControl(op[2]))
      [] op[1] = "applyOpenAICompatible" -> applyOpenAICompatibleCacheControl(messages)
      [] OTHER -> removeOpenAICompatibleCacheControl(messages)

InitCache ==
    /\ cacheInput \in CacheMessageLists
    /\ cacheOp = <<>> /\ cacheOnce = <<>> /\ cacheTwice = <<>>
    /\ pcC = "ready"
    /\ NamesIdle /\ StreamIdle /\ TransIdle /\ LoopIdle /\ SanIdle /\ RegIdle /\ ReqIdle /\ ErrIdle /\ KeyIdle /\ OutIdle

\* an annotator runs on the message list
AnnotateOnce ==
    /\ pcC = "ready"
    /\ \E op \in CacheOps :
        /\ cacheOp' = op
        /\ cacheOnce' = Annotate(op, cacheInput)
    /\ pcC' = "once"
    /\ UNCHANGED <<cacheInput, cacheTwice>>
    /\ UNCHANGED otherThanCache

\* the same annotator runs on its own result
AnnotateAgain ==
    /\ pcC = "once"
    /\ cacheTwice' = Annotate(cacheOp, cacheOnce)
    /\ pcC' = "twice"
    /\ UNCHANGED <<cacheInput, cacheOp, cacheOnce>>
    /\ UNCHANGED otherThanCache

NextCache == AnnotateOnce \/ AnnotateAgain

SpecCache == InitCache /\ [][NextCache]_vars

\* ------------------------------------------------------------------------
\* Claims about the Prompt Cache Annotator
\* ------------------------------------------------------------------------

\* C10: applying applyAnthropicCacheControl (with the same cache-control
\* value), applyOpenAICompatibleCacheControl or
\* removeOpenAICompatibleCacheControl twice yields the same message list as
\* applying it once.
C10_AnnotationIdempotent == pcC = "twice" => cacheTwice = cacheOnce

\* C10 witness: an annotator has run twice on a list of four messages that it
\* changed the first time.
C10_Witness ==
    /\ pcC = "twice" /\ Len(cacheInput) = MaxMessages /\ cacheOnce # cacheInput
    /\ \A i \in 1..Len(cacheInput) : cacheInput[i].role = "user"

\* the messages of the same kind (system or not) as messages[i], before it
\* and after it
SameKindBefore(messages, i) ==
    {j \in 1..(i - 1) : (messages[j].role = "system") = (messages[i].role = "system")}

SameKindAfter(messages, i) ==
    {j \in (i + 1)..Len(messages) : (messages[j].role = "system") = (messages[i].role = "system")}

\* one of the first 2 system messages or of the last 2 non-system messages
IsCandidate(messages, i) ==
    IF messages[i].role = "system"
    THEN Cardinality(SameKindBefore(messages, i)) < 2
    ELSE Cardinality(SameKindAfter(messages, i)) < 2

\* the marker of the dialect an annotator writes for
MarkerOf(op, message) ==
    IF op[1] = "applyAnthropic"
    THEN LET anthropic == Get(message.providerOptions, "anthropic")
         IN  IF Truthy(Get(anthropic, "cacheControl"))
             THEN Get(anthropic, "cacheControl") ELSE Get(anthropic, "cache_control")
    ELSE Get(Get(message.providerOptions, "openaiCompatible"), "cache_control")

\* C27: cache annotation changes only candidate messages: at most the first 2
\* system-role messages and the last 2 non-system messages receive a marker,
\* every other message is returned unchanged, the number and order of the
\* messages is unchanged, and a candidate that already carries the dialect's
\* marker is returned as it was.
C27_OnlyCandidatesChange ==
    (pcC # "ready" /\ cacheOp[1] # "removeOpenAICompatible") =>
        /\ Len(cacheOnce) = Len(cacheInput)
        /\ \A i \in 1..Len(cacheInput) :
              /\ cacheOnce[i].role = cacheInput[i].role
              /\ ~IsCandidate(cacheInput, i) => cacheOnce[i] = cacheInput[i]
              /\ (IsCandidate(cacheInput, i) /\ Truthy(MarkerOf(cacheOp, cacheInput[i]))) =>
                    cacheOnce[i] = cacheInput[i]
              /\ (IsCandidate(cacheInput, i) /\ ~Truthy(MarkerOf(cacheOp, cacheInput[i]))) =>
                    Truthy(MarkerOf(cacheOp, cacheOnce[i]))
        /\ Cardinality({i \in 1..Len(cacheInput) : cacheOnce[i] # cacheInput[i]}) <= 4

\* the Anthropic annotator with ttl 5m ran on three system messages and a
\* user message: the third system message stayed as it was, and so did the
\* first, which carried a marker with ttl 1h; the other two were marked
C27_Witness ==
    /\ pcC = "once" /\ cacheOp = <<"applyAnthropic", "5m">>
    /\ Len(cacheInput) = 4
    /\ \A i \in 1..3 : cacheInput[i].role = "system"
    /\ cacheInput[4].role = "user"
    /\ MarkerOf(cacheOp, cacheInput[1]) = EphemeralTtl("1h")
    /\ cacheInput[2].providerOptions = JUndef /\ cacheInput[3].providerOptions = JUndef
    /\ cacheInput[4].providerOptions = JUndef
    /\ cacheOnce[1] = cacheInput[1] /\ cacheOnce[3] = cacheInput[3]
    /\ MarkerOf(cacheOp, cacheOnce[2]) = EphemeralTtl("5m")
    /\ MarkerOf(cacheOp, cacheOnce[4]) = EphemeralTtl("5m")

\* ------------------------------------------------------------------------
\* Capability Registry: modelRegistry.ts, ModelRegistry
\* An optional field (number | undefined, array | undefined) is a sequence
\* that is empty or holds the one value.
\* ------------------------------------------------------------------------

\* ttlMinutes * 60_000
MsPerMinute == 60000

\* the clock advances by half a minute
TickMs == MsPerMinute \div 2

Max(a, b) == IF a > b THEN a ELSE b

\* line 68: Math.max(0, ttlMinutes) * 60_000
TtlMs(minutes) == Max(0, minutes) * MsPerMinute

\* values of the setting opencodeZen.modelCacheTtlMinutes
TtlSettings == { -1, 0, 1 }

\* a model of the models.dev document
FeedModel(id, n, status, costInput, npm) ==
    [id |-> id, name |-> n, status |-> status, costInput |-> costInput, npm |-> npm]

\* the provider entry json['opencode'] of a fetched document
FeedA ==
    [npm |-> "@ai-sdk/openai-compatible", api |-> "https://a",
     models |-> { FeedModel("m1", "b", "active", <<0>>, Undefined),
                  FeedModel("m2", "a", "deprecated", <<0>>, Undefined),
                  FeedModel("m3", "c", Undefined, <<3>>, "@ai-sdk/anthropic") }]

FeedB ==
    [npm |-> "@ai-sdk/openai", api |-> "https://b",
     models |-> { FeedModel("m1", "b", "beta", <<>>, Undefined) }]

Feeds == { FeedA, FeedB }

\* a.name.localeCompare(b.name) on one-letter lower-case names
NameOrder == <<"a", "b", "c">>

NameRank(n) == CHOOSE k \in 1..Len(NameOrder) : NameOrder[k] = n

\* Array.prototype.sort by name
SortByName(S) ==
    CHOOSE seq \in [1..Cardinality(S) -> S] :
        /\ \A i, j \in 1..Cardinality(S) : i < j => NameRank(seq[i].name) < NameRank(seq[j].name)

\* line 95
isActiveModel(model) == model.status = Undefined \/ model.status # "deprecated"

\* lines 97-101: the ids of the active models the caller may use, by name
ModelList(provider, hasKey) ==
    LET kept == { m \in provider.models :
                    isActiveModel(m) /\ (hasKey \/ m.costInput = <<0>>) }
        sorted == SortByName(kept)
    IN  [i \in 1..Len(sorted) |-> sorted[i].id]

\* lines 89-93
OverridesOf(provider) ==
    LET with == { m \in provider.models : m.npm # Undefined }
    IN  [id \in { m.id : m \in with } |-> (CHOOSE m \in with : m.id = id).npm]

\* lines 103-111
MetadataOf(provider) == [id \in { m.id : m \in provider.models } |-> provider.api]

\* a reuse test that still serves a list whose age equals the TTL
CacheFreshInclusive(ttlMs, now, at) == ttlMs = 0 \/ now - at <= ttlMs

\* line 71
CacheFresh(ttlMs, now, at) == ttlMs = 0 \/ now - at < ttlMs

\* lines 70-74: the call is served from the cache
ReusesCache(force, ttlMs, now) ==
    /\ ~force /\ cachedModels # <<>> /\ cachedAtMs # <<>>
    /\ CacheFresh(ttlMs, now, cachedAtMs[1])

\* what is known of the most recent getModels call when it returns or waits
CallRecord(force, hasKey, ttlMs, now, fetched, returned) ==
    [force |-> force, hasKey |-> hasKey, ttlMs |-> ttlMs, now |-> now,
     cachedBefore |-> cachedModels, cachedAtBefore |-> cachedAtMs,
     fetched |-> fetched, returned |-> returned]

RemoveAt(seq, k) == SubSeq(seq, 1, k - 1) \o SubSeq(seq, k + 1, Len(seq))

\* how a call that waited for its fetch ended, as its caller sees it
Outcome(via, failed, threw, returned) ==
    [via |-> via, failed |-> failed, threw |-> threw, returned |-> returned, error |-> "none"]

\* lines 76-87: fetch rejects, the response is not ok, the document has no
\* 'opencode' entry
FetchErrors == { "unreachable", "not ok", "no provider" }

\* provider.ts 31-33 and 40-44: the callers that catch a rejected getModels
Swallows(via) == via \in {"refreshModels", "provideLanguageModelChatInformation"}

\* refreshModels returns nothing; the other callers get the list
ReturnedTo(via, list) == IF via = "refreshModels" THEN <<>> ELSE <<list>>

InitReg ==
    /\ cachedAtMs = <<>> /\ cachedModels = <<>> /\ providerDefaults = <<>>
    /\ modelProviderOverrides = EmptyMap /\ modelRequestMetadata = EmptyMap
    /\ changeEvents = 0 /\ clock = 0 /\ ttlMinutes \in TtlSettings
    /\ inFlight = <<>> /\ fetches = 0 /\ lastCall = <<>> /\ pcR = "running"
    /\ afterInvalidate = "never" /\ hostEvents = 0 /\ refreshed = 0 /\ ended = <<>>
    /\ NamesIdle /\ StreamIdle /\ TransIdle /\ LoopIdle /\ CacheIdle /\ SanIdle /\ ReqIdle /\ ErrIdle /\ KeyIdle /\ OutIdle

\* Date.now() moves on
Tick ==
    /\ pcR = "running"
    /\ clock < MaxClock * TickMs
    /\ clock' = clock + TickMs
    /\ UNCHANGED <<cachedAtMs, cachedModels, providerDefaults, modelProviderOverrides,
                   modelRequestMetadata, changeEvents, ttlMinutes, inFlight, fetches, lastCall, pcR,
                   afterInvalidate, hostEvents, refreshed>>
    /\ UNCHANGED ended
    /\ UNCHANGED otherThanReg

\* the user changes opencodeZen.modelCacheTtlMinutes
SetTtl(minutes) ==
    /\ pcR = "running"
    /\ minutes # ttlMinutes
    /\ ttlMinutes' = minutes
    /\ UNCHANGED <<cachedAtMs, cachedModels, providerDefaults, modelProviderOverrides,
                   modelRequestMetadata, changeEvents, clock, inFlight, fetches, lastCall, pcR,
                   afterInvalidate, hostEvents, refreshed>>
    /\ UNCHANGED ended
    /\ UNCHANGED otherThanReg

\* lines 64-76: getModels up to its return of the cached list or to the
\* await of its fetch; via names the caller that awaits the result and epoch
\* the number of invalidate() calls made before the fetch started
GetModelsVia(force, hasKey, via) ==
    /\ pcR = "running"
    /\ LET ttlMs == TtlMs(ttlMinutes)
           now == clock
       IN  IF ReusesCache(force, ttlMs, now)
           THEN /\ lastCall' = <<CallRecord(force, hasKey, ttlMs, now, FALSE, cachedModels)>>
                /\ UNCHANGED <<inFlight, fetches>>
           ELSE /\ fetches < MaxFetches
                /\ Len(inFlight) < MaxInFlight
                /\ fetches' = fetches + 1
                /\ inFlight' = Append(inFlight, [now |-> now, hasKey |-> hasKey, via |-> via,
                                                 epoch |-> changeEvents])
                /\ lastCall' = <<CallRecord(force, hasKey, ttlMs, now, TRUE, <<>>)>>
    /\ afterInvalidate' = IF afterInvalidate = "fresh" THEN "used" ELSE afterInvalidate
    /\ UNCHANGED <<cachedAtMs, cachedModels, providerDefaults, modelProviderOverrides,
                   modelRequestMetadata, changeEvents, clock, ttlMinutes, pcR,
                   hostEvents, refreshed>>
    /\ UNCHANGED ended
    /\ UNCHANGED otherThanReg

\* lines 64-117, called by provideLanguageModelChatInformation (provider.ts 40)
\* or directly
GetModels(force, hasKey) == GetModelsVia(force, hasKey, "getModels")

\* provider.ts 36-45: provideLanguageModelChatInformation calls getModels()
provideLanguageModelChatInformation ==
    GetModelsVia(FALSE, TRUE, "provideLanguageModelChatInformation")

\* provider.ts 21-34: refreshModels(false) awaits getModels({force: true});
\* refreshModels(true) is invalidate
refreshModels == GetModelsVia(TRUE, TRUE, "refreshModels")

\* lines 119-122: getModelProviderInfo calls getModels() when the defaults or
\* the list are missing; otherwise it answers from the maps it holds
getModelProviderInfo ==
    IF providerDefaults = <<>> \/ cachedModels = <<>>
    THEN GetModelsVia(FALSE, TRUE, "getModelProviderInfo")
    ELSE /\ pcR = "running"
         /\ afterInvalidate' = IF afterInvalidate = "fresh" THEN "used" ELSE afterInvalidate
         /\ UNCHANGED <<cachedAtMs, cachedModels, providerDefaults, modelProviderOverrides,
                        modelRequestMetadata, changeEvents, clock, ttlMinutes, inFlight, fetches,
                        lastCall, pcR, hostEvents, refreshed>>
         /\ UNCHANGED ended
         /\ UNCHANGED otherThanReg

\* a refresh after which refreshModels does not fire the change event
FetchSucceedsSilently(k, provider) ==
    /\ pcR = "running"
    /\ k \in 1..Len(inFlight)
    /\ providerDefaults' = <<[npm |-> provider.npm, api |-> provider.api]>>
    /\ modelProviderOverrides' = OverridesOf(provider)
    /\ modelRequestMetadata' = MetadataOf(provider)
    /\ cachedModels' = <<ModelList(provider, inFlight[k].hasKey)>>
    /\ cachedAtMs' = <<inFlight[k].now>>
    /\ refreshed' = refreshed + 1
    /\ inFlight' = RemoveAt(inFlight, k)
    /\ UNCHANGED <<changeEvents, clock, ttlMinutes, fetches, lastCall, pcR, afterInvalidate,
                   hostEvents>>
    /\ ended' = <<Outcome(inFlight[k].via, FALSE, FALSE,
                        ReturnedTo(inFlight[k].via, ModelList(provider, inFlight[k].hasKey)))>>
    /\ UNCHANGED otherThanReg

\* lines 83-116: the fetch of a waiting call delivers the provider entry;
\* provider.ts 30: refreshModels then fires the provider's change event
FetchSucceeds(k, provider) ==
    /\ pcR = "running"
    /\ k \in 1..Len(inFlight)
    /\ providerDefaults' = <<[npm |-> provider.npm, api |-> provider.api]>>
    /\ modelProviderOverrides' = OverridesOf(provider)
    /\ modelRequestMetadata' = MetadataOf(provider)
    /\ cachedModels' = <<ModelList(provider, inFlight[k].hasKey)>>
    /\ cachedAtMs' = <<inFlight[k].now>>
    /\ refreshed' = refreshed + 1
    /\ hostEvents' = IF inFlight[k].via = "refreshModels" THEN hostEvents + 1 ELSE hostEvents
    /\ inFlight' = RemoveAt(inFlight, k)
    /\ UNCHANGED <<changeEvents, clock, ttlMinutes, fetches, lastCall, pcR, afterInvalidate>>
    /\ ended' = <<Outcome(inFlight[k].via, FALSE, FALSE,
                        ReturnedTo(inFlight[k].via, ModelList(provider, inFlight[k].hasKey)))>>
    /\ UNCHANGED otherThanReg

\* a failed fetch that every caller sees as a rejection
FetchFailsForEveryCaller(k) ==
    /\ pcR = "running"
    /\ k \in 1..Len(inFlight)
    /\ inFlight' = RemoveAt(inFlight, k)
    /\ ended' = <<Outcome(inFlight[k].via, TRUE, TRUE, <<>>)>>
    /\ UNCHANGED <<cachedAtMs, cachedModels, providerDefaults, modelProviderOverrides,
                   modelRequestMetadata, changeEvents, clock, ttlMinutes, fetches, lastCall, pcR,
                   afterInvalidate, hostEvents, refreshed>>
    /\ UNCHANGED otherThanReg

\* a failed fetch that drops the cached list
FetchFailsDroppingList(k) ==
    /\ pcR = "running"
    /\ k \in 1..Len(inFlight)
    /\ inFlight' = RemoveAt(inFlight, k)
    /\ cachedModels' = <<>> /\ cachedAtMs' = <<>>
    /\ UNCHANGED <<providerDefaults, modelProviderOverrides,
                   modelRequestMetadata, changeEvents, clock, ttlMinutes, fetches, lastCall, pcR,
                   afterInvalidate, hostEvents, refreshed>>
    /\ \E why \in FetchErrors :
          ended' = <<[Outcome(inFlight[k].via, TRUE, ~Swallows(inFlight[k].via), <<>>)
                      EXCEPT !.error = why]>>
    /\ UNCHANGED otherThanReg

\* lines 76-87: the fetch rejects, is not ok, or has no 'opencode' entry;
\* provider.ts 31-33, 40-44: refreshModels and
\* provideLanguageModelChatInformation catch the rejection
FetchFails(k) ==
    /\ pcR = "running"
    /\ k \in 1..Len(inFlight)
    /\ inFlight' = RemoveAt(inFlight, k)
    /\ UNCHANGED <<cachedAtMs, cachedModels, providerDefaults, modelProviderOverrides,
                   modelRequestMetadata, changeEvents, clock, ttlMinutes, fetches, lastCall, pcR,
                   afterInvalidate, hostEvents, refreshed>>
    /\ \E why \in FetchErrors :
          ended' = <<[Outcome(inFlight[k].via, TRUE, ~Swallows(inFlight[k].via),
                              IF inFlight[k].via = "provideLanguageModelChatInformation"
                              THEN <<<<>>>> ELSE <<>>)
                      EXCEPT !.error = why]>>
    /\ UNCHANGED otherThanReg

\* an invalidation that keeps the list and its timestamp
invalidateKeepingList ==
    /\ pcR = "running"
    /\ changeEvents < MaxInvalidations
    /\ providerDefaults' = <<>>
    /\ modelProviderOverrides' = EmptyMap /\ modelRequestMetadata' = EmptyMap
    /\ changeEvents' = changeEvents + 1
    /\ hostEvents' = hostEvents + 1
    /\ afterInvalidate' = "fresh"
    /\ UNCHANGED <<cachedAtMs, cachedModels, clock, ttlMinutes, inFlight, fetches, lastCall, pcR,
                   refreshed>>
    /\ UNCHANGED ended
    /\ UNCHANGED otherThanReg

\* lines 55-62; provider.ts 18: the provider passes the registry's event on
invalidate ==
    /\ pcR = "running"
    /\ changeEvents < MaxInvalidations
    /\ cachedAtMs' = <<>> /\ cachedModels' = <<>> /\ providerDefaults' = <<>>
    /\ modelProviderOverrides' = EmptyMap /\ modelRequestMetadata' = EmptyMap
    /\ changeEvents' = changeEvents + 1
    /\ hostEvents' = hostEvents + 1
    /\ afterInvalidate' = "fresh"
    /\ UNCHANGED <<clock, ttlMinutes, inFlight, fetches, lastCall, pcR, refreshed>>
    /\ UNCHANGED ended
    /\ UNCHANGED otherThanReg

NextReg ==
    \/ Tick
    \/ \E minutes \in TtlSettings : SetTtl(minutes)
    \/ \E force \in BOOLEAN, hasKey \in BOOLEAN : GetModels(force, hasKey)
    \/ provideLanguageModelChatInformation
    \/ refreshModels
    \/ getModelProviderInfo
    \/ \E k \in 1..MaxInFlight, provider \in Feeds : FetchSucceeds(k, provider)
    \/ \E k \in 1..MaxInFlight : FetchFails(k)
    \/ invalidate

SpecRegistry == InitReg /\ [][NextReg]_vars

\* ------------------------------------------------------------------------
\* Claims about the Capability Registry
\* ------------------------------------------------------------------------

\* C13: with ttl = 0 getModels never reuses the cached list; every call
\* performs a fresh metadata fetch, whether or not a list is cached.
C13_ZeroTtlAlwaysFetches ==
    \A i \in 1..Len(lastCall) : lastCall[i].ttlMs = 0 => lastCall[i].fetched

\* C14: with ttl > 0 getModels returns the cached list without fetching
\* exactly when a list is cached, force is not set and now - cachedAt < ttl;
\* it fetches when force is set or now - cachedAt >= ttl.
C14_ReuseExactlyWhenFresh ==
    \A i \in 1..Len(lastCall) :
        LET call == lastCall[i]
            fresh == /\ call.cachedBefore # <<>> /\ call.cachedAtBefore # <<>>
                     /\ ~call.force
                     /\ call.now - call.cachedAtBefore[1] < call.ttlMs
        IN  call.ttlMs > 0 =>
              /\ ~call.fetched <=> fresh
              /\ ~call.fetched => call.returned = call.cachedBefore

\* a call with ttl > 0 was served a list cached half a minute earlier
C14_Witness ==
    \E i \in 1..Len(lastCall) :
        /\ lastCall[i].ttlMs > 0 /\ ~lastCall[i].fetched
        /\ lastCall[i].cachedAtBefore # <<>>
        /\ lastCall[i].now > lastCall[i].cachedAtBefore[1]
        /\ lastCall[i].returned # <<>>

\* an unforced call fetched because the age of the list had reached the TTL
C14_WitnessExpired ==
    \E i \in 1..Len(lastCall) :
        /\ lastCall[i].ttlMs > 0 /\ lastCall[i].fetched /\ ~lastCall[i].force
        /\ lastCall[i].cachedBefore # <<>> /\ lastCall[i].cachedAtBefore # <<>>
        /\ lastCall[i].now - lastCall[i].cachedAtBefore[1] = lastCall[i].ttlMs

\* everything invalidate() is to clear
CacheEmpty ==
    /\ cachedAtMs = <<>> /\ cachedModels = <<>> /\ providerDefaults = <<>>
    /\ modelProviderOverrides = EmptyMap /\ modelRequestMetadata = EmptyMap

FetchEnded == Len(inFlight') < Len(inFlight)

\* the answer went to a refreshModels() call
EndedForRefreshModels ==
    \E k \in 1..Len(inFlight) :
        inFlight' = RemoveAt(inFlight, k) /\ inFlight[k].via = "refreshModels"

\* C24 as stated: every getModels call that fetched and replaced the cached
\* list (forced, on first use or after TTL expiry) fires a change
\* notification; a failed refresh fires none.
C24_EveryRefreshNotifies ==
    [][ /\ refreshed' # refreshed => hostEvents' > hostEvents
        /\ (FetchEnded /\ refreshed' = refreshed) => hostEvents' = hostEvents ]_vars

\* C24 amended: a successful refresh made through refreshModels() fires one
\* change notification; a getModels call that fetched for
\* provideLanguageModelChatInformation, getModelProviderInfo or a direct
\* caller fires none; a failed refresh fires none.
C24_RefreshModelsNotifies ==
    [][ /\ (refreshed' # refreshed /\ EndedForRefreshModels) => hostEvents' = hostEvents + 1
        /\ (refreshed' # refreshed /\ ~EndedForRefreshModels) => hostEvents' = hostEvents
        /\ (FetchEnded /\ refreshed' = refreshed) => hostEvents' = hostEvents ]_vars

\* two refreshes succeeded, one of them for refreshModels(), and the only
\* notification is the one of refreshModels()
C24_Witness ==
    /\ refreshed = 2 /\ hostEvents = 1 /\ changeEvents = 0 /\ inFlight = <<>>

\* the fetched document the cached state was built from
CachedFeed == CHOOSE f \in Feeds : f.api = providerDefaults[1].api

\* a list of model ids of a document holds no deprecated model and, for a
\* caller without key, only models of input cost zero
ListFiltered(list, feed, hasKey) ==
    \A i \in 1..Len(list) :
        LET model == CHOOSE m \in feed.models : m.id = list[i]
        IN  /\ model.status # "deprecated"
            /\ ~hasKey => model.costInput = <<0>>

\* C25: every list returned by getModels holds no model flagged deprecated,
\* and every list returned to a call with hasKey = false holds only
\* zero-input-cost models, also when the list is served from a cache that an
\* earlier call with hasKey = true filled.
C25_ReturnedListsFiltered ==
    [][ /\ (lastCall' # lastCall /\ ~lastCall'[1].fetched) =>
              ListFiltered(lastCall'[1].returned[1], CachedFeed, lastCall'[1].hasKey)
        /\ refreshed' # refreshed =>
              \E k \in 1..Len(inFlight) :
                  /\ inFlight' = RemoveAt(inFlight, k)
                  /\ ListFiltered(cachedModels'[1], CachedFeed', inFlight[k].hasKey) ]_vars

\* C25, the deprecated models alone: no returned or cached list holds one.
C25_NoDeprecatedModel ==
    cachedModels # <<>> => ListFiltered(cachedModels[1], CachedFeed, TRUE)

\* a waiting call got a failed fetch as its answer
FetchFailed == FetchEnded /\ refreshed' = refreshed

\* C32: a metadata fetch failure while listing models is swallowed:
\* provideLanguageModelChatInformation returns an empty list instead of
\* failing, and refreshModels(false) completes without error and without
\* firing its own change notification.
C32_ListingFailureSwallowed ==
    [][ FetchFailed =>
          /\ ended' # <<>> /\ ended'[1].failed
          /\ ended'[1].via = "provideLanguageModelChatInformation" =>
                (~ended'[1].threw /\ ended'[1].returned = <<<<>>>>)
          /\ ended'[1].via = "refreshModels" =>
                (~ended'[1].threw /\ hostEvents' = hostEvents) ]_vars

\* the fetch for provideLanguageModelChatInformation failed and the host got
\* an empty list; nothing is cached
C32_Witness ==
    /\ ended = <<[Outcome("provideLanguageModelChatInformation", TRUE, FALSE, <<<<>>>>)
                  EXCEPT !.error = "unreachable"]>>
    /\ cachedModels = <<>> /\ inFlight = <<>> /\ fetches = 1

\* the fetch for refreshModels(false) failed: the call ended without error
\* and no notification has been fired
C32_WitnessRefresh ==
    /\ ended = <<[Outcome("refreshModels", TRUE, FALSE, <<>>) EXCEPT !.error = "not ok"]>>
    /\ hostEvents = 0 /\ inFlight = <<>> /\ fetches = 1

\* C37: a failed metadata fetch (unreachable, non-2xx, or a document without
\* the provider key) leaves the registry's cached state unchanged: the cached
\* list, the timestamp, the backend defaults and the per-model overrides after
\* the failed getModels call equal those before it.
C37_FailedFetchKeepsCache ==
    [][ FetchFailed =>
          /\ ended' # <<>> /\ ended'[1].error \in FetchErrors
          /\ UNCHANGED <<cachedModels, cachedAtMs, providerDefaults,
                         modelProviderOverrides>> ]_vars

\* a list with an override was cached, the document of the next fetch had no
\* provider key, and the list, its timestamp, the defaults and the override
\* are still held
C37_Witness ==
    /\ ended # <<>> /\ ended[1].failed /\ ended[1].error = "no provider"
    /\ refreshed = 1 /\ fetches = 2 /\ inFlight = <<>>
    /\ cachedModels # <<>> /\ cachedAtMs # <<>> /\ providerDefaults # <<>>
    /\ DOMAIN modelProviderOverrides # {}

\* C38: in every reachable state of the registry, under any interleaving of
\* getModels, getModelProviderInfo and invalidate calls, the cached list is
\* defined exactly when the cache timestamp is defined, and a defined cached
\* list implies defined backend defaults.
C38_ListTimestampDefaults ==
    /\ cachedModels # <<>> <=> cachedAtMs # <<>>
    /\ cachedModels # <<>> => providerDefaults # <<>>

\* invalidate() ran while a fetch was outstanding, a list had been cached
\* before it, and the outstanding fetch has filled the three fields again
C38_Witness ==
    /\ changeEvents = 1 /\ refreshed = 2 /\ inFlight = <<>>
    /\ cachedModels # <<>> /\ cachedAtMs # <<>> /\ providerDefaults # <<>>

\* invalidate() has emptied the three fields of a filled cache
C38_WitnessEmpty ==
    /\ changeEvents = 1 /\ refreshed = 1 /\ inFlight = <<>>
    /\ cachedModels = <<>> /\ cachedAtMs = <<>> /\ providerDefaults = <<>>

\* the fetch of a call that started before the latest invalidate() ended
StaleFetchEnded ==
    \E k \in 1..Len(inFlight) :
        inFlight' = RemoveAt(inFlight, k) /\ inFlight[k].epoch < changeEvents

\* C39: after invalidate() has been called, the registry never serves data
\* from a metadata fetch that was started before the invalidation: a refresh
\* that is in flight when invalidate() runs does not repopulate the cache when
\* it completes.
C39_StaleFetchDoesNotRepopulate ==
    [][ StaleFetchEnded =>
          /\ cachedModels' = cachedModels /\ cachedAtMs' = cachedAtMs
          /\ providerDefaults' = providerDefaults ]_vars

\* ------------------------------------------------------------------------
\* Request preparation: provider.ts, provideLanguageModelChatResponse up to
\* the call of streamZen, and streamZen up to its streaming request
\* ------------------------------------------------------------------------

OPENAI_COMPAT_PROVIDER_NAME == "opencode-zen"

UpperCase == <<"A", "B", "C", "D", "E", "F", "G", "H", "I", "J", "K", "L", "M",
               "N", "O", "P", "Q", "R", "S", "T", "U", "V", "W", "X", "Y", "Z">>

LowerCase == <<"a", "b", "c", "d", "e", "f", "g", "h", "i", "j", "k", "l", "m",
               "n", "o", "p", "q", "r", "s", "t", "u", "v", "w", "x", "y", "z">>

\* String.prototype.toLowerCase on a sequence of characters
ToLowerCase(str) ==
    [i \in 1..Len(str) |->
        IF \E k \in 1..Len(UpperCase) : UpperCase[k] = str[i]
        THEN LowerCase[CHOOSE k \in 1..Len(UpperCase) : UpperCase[k] = str[i]]
        ELSE str[i]]

\* String.prototype.trim
RECURSIVE Trim(_)
Trim(str) ==
    IF str = <<>> THEN str
    ELSE IF Head(str) = " " THEN Trim(Tail(str))
    ELSE IF str[Len(str)] = " " THEN Trim(SubSeq(str, 1, Len(str) - 1))
    ELSE str

\* String.prototype.endsWith
EndsWith(str, ending) ==
    Len(str) >= Len(ending) /\ SubSeq(str, Len(str) - Len(ending) + 1, Len(str)) = ending

Glm47 == <<"g", "l", "m", "-", "4", ".", "7">>

\* a model id matcher that compares the id as it is given
isGlm47ModelIdExact(id) == id = Glm47 \/ EndsWith(id, <<"/">> \o Glm47)

\* provider.ts 507-510
isGlm47ModelId(id) ==
    LET normalized == ToLowerCase(Trim(id))
    IN  normalized = Glm47 \/ EndsWith(normalized, <<"/">> \o Glm47)

\* provider.ts 544-577
buildProviderOptions(options, npm, cacheKey, retention) ==
    IF cacheKey = Undefined \/ cacheKey = "" THEN options
    ELSE LET merged == IF Truthy(options) THEN options.f ELSE EmptyMap
             keep == retention # Undefined /\ retention # "in_memory"
             openai == Spread(IF IsObject(Get(JObj(merged), "openai"))
                              THEN merged["openai"].f ELSE EmptyMap,
                              IF keep
                              THEN [promptCacheKey |-> JStr(cacheKey),
                                    promptCacheRetention |-> JStr(retention)]
                              ELSE [promptCacheKey |-> JStr(cacheKey)])
             compatible == Spread(IF IsObject(Get(JObj(merged), OPENAI_COMPAT_PROVIDER_NAME))
                                  THEN merged[OPENAI_COMPAT_PROVIDER_NAME].f ELSE EmptyMap,
                                  IF keep
                                  THEN [prompt_cache_key |-> JStr(cacheKey),
                                        prompt_cache_retention |-> JStr(retention)]
                                  ELSE [prompt_cache_key |-> JStr(cacheKey)])
         IN  IF npm = "@ai-sdk/openai"
             THEN JObj(Spread(merged, [openai |-> JObj(openai)]))
             ELSE IF npm = "@ai-sdk/openai-compatible"
             THEN JObj(Spread(merged, [k \in {OPENAI_COMPAT_PROVIDER_NAME} |-> JObj(compatible)]))
             ELSE IF DOMAIN merged # {} THEN JObj(merged) ELSE JUndef

\* PromptCachingConfig, provider.ts 405-420
CachingConfigs ==
    [enabled : BOOLEAN, retention : {"in_memory", "24h"},
     cacheKeyScope : {"workspace", "global", "none"}, anthropicTtl : {"5m", "none"}]

\* model ids: "gpt-5", " GLM-4.7", "GLM-4.7" and "zai/glm-4.7"
ModelIds ==
    { <<"g", "p", "t", "-", "5">>,
      <<" ", "G", "L", "M", "-", "4", ".", "7">>,
      <<"G", "L", "M", "-", "4", ".", "7">>,
      <<"z", "a", "i", "/">> \o Glm47 }

\* context.workspaceState / context.globalState under 'opencodeZen.promptCacheKey'
KeyStores == [{"workspace", "global"} -> {Undefined, "stored-key"}]

\* crypto.randomUUID()
RandomUuid == "fresh-uuid"

\* the messages messagesToAiSdkMessages hands on: none carries providerOptions
CoreMessageLists ==
    { <<>>,
      <<CacheMessage("user", JUndef)>>,
      <<CacheMessage("system", JUndef), CacheMessage("user", JUndef),
        CacheMessage("assistant", JUndef)>> }

DebugFlag == "__opencodeDebugSelfTest"

\* options.modelOptions: none, a sampling option, the self-test's debug flag
\* alone, and cache fields of the OpenAI-compatible backend set by the caller
ModelOptionsPool ==
    { JUndef,
      JObj([temperature |-> JStr("0")]),
      JObj([k \in {DebugFlag} |-> JTrue]),
      JObj([k \in {OPENAI_COMPAT_PROVIDER_NAME} |->
               JObj([prompt_cache_key |-> JStr("injected"),
                     prompt_cache_retention |-> JStr("24h")])]) }

\* provider.ts 599-611
splitDebugOptions(options) ==
    IF ~IsObject(options)
    THEN [debugFlag |-> FALSE, modelOptions |-> options]
    ELSE LET copy == [k \in (DOMAIN options.f) \ {DebugFlag} |-> options.f[k]]
         IN  [debugFlag |-> Truthy(Get(options, DebugFlag)),
              modelOptions |-> IF DOMAIN copy # {} THEN JObj(copy) ELSE JUndef]

\* the npm package the registry names for the model, once it is loaded
RegistryNpms == { "@ai-sdk/anthropic", "@ai-sdk/openai", "@ai-sdk/openai-compatible" }

MetadataFetchError == [kind |-> "Error", message |-> <<"Failed to fetch models from models.dev">>]

\* provider.ts 427-433: the storage calls getOrCreatePromptCacheKey makes
StorageCalls(store, scope) ==
    IF store[scope] = Undefined \/ store[scope] = ""
    THEN <<[op |-> "get", scope |-> scope], [op |-> "update", scope |-> scope]>>
    ELSE <<[op |-> "get", scope |-> scope]>>

\* provider.ts 423-435: the key of the scope, and the storage after the call
getOrCreatePromptCacheKey(store, scope) ==
    IF store[scope] = Undefined \/ store[scope] = ""
    THEN [key |-> RandomUuid, store |-> [store EXCEPT ![scope] = RandomUuid]]
    ELSE [key |-> store[scope], store |-> store]

\* a call that returns a generated key and does not store it
getOrCreatePromptCacheKeyUnsaved(store, scope, uuid) ==
    IF store[scope] = Undefined \/ store[scope] = ""
    THEN [key |-> uuid, store |-> store]
    ELSE [key |-> store[scope], store |-> store]

\* provider.ts 423-435 with the value randomUUID() returns in this call
getOrCreatePromptCacheKeyUsing(store, scope, uuid) ==
    IF store[scope] = Undefined \/ store[scope] = ""
    THEN [key |-> uuid, store |-> [store EXCEPT ![scope] = uuid]]
    ELSE [key |-> store[scope], store |-> store]

\* provider.ts 77-91
SelectCachedMessages(config, npm, id, messages) ==
    IF config.enabled /\ npm = "@ai-sdk/anthropic"
    THEN applyAnthropicCacheControl(messages, buildAnthropicCacheControl(config.anthropicTtl))
    ELSE IF config.enabled /\ npm = "@ai-sdk/openai-compatible"
    THEN (IF isGlm47ModelId(id) THEN removeOpenAICompatibleCacheControl(messages)
          ELSE applyOpenAICompatibleCacheControl(messages))
    ELSE IF npm = "@ai-sdk/openai-compatible"
    THEN removeOpenAICompatibleCacheControl(messages)
    ELSE messages

InitReq ==
    /\ storedKey \in ApiKeys
    /\ regLoaded \in BOOLEAN
    /\ feedNpm \in RegistryNpms
    /\ modelId \in ModelIds
    /\ promptCaching \in CachingConfigs
    /\ keyStore \in KeyStores
    /\ coreMessages \in CoreMessageLists
    /\ modelOptions \in ModelOptionsPool
    /\ providerInfoNpm = Undefined /\ promptCacheKey = Undefined
    /\ cachedMessages = <<>> /\ reqProviderOptions = JUndef
    /\ network = <<>> /\ reqThrown = <<>> /\ pcQ = "start"
    /\ storageLog = <<>> /\ sentBody = <<>>
    /\ NamesIdle /\ StreamIdle /\ TransIdle /\ LoopIdle /\ CacheIdle /\ SanIdle /\ RegIdle /\ ErrIdle /\ KeyIdle /\ OutIdle

\* provider.ts 54-57: getApiKey and the check of its result
CheckApiKey ==
    /\ pcQ = "start"
    /\ IF storedKey = Undefined \/ storedKey = ""
       THEN /\ reqThrown' = <<[kind |-> "Error", message |-> KeyNotSetMessage]>>
            /\ pcQ' = "failed"
       ELSE /\ reqThrown' = reqThrown
            /\ pcQ' = "providerInfo"
    /\ UNCHANGED <<storedKey, storageLog, sentBody, regLoaded, feedNpm, modelId, promptCaching, keyStore, coreMessages,
                   modelOptions, providerInfoNpm, promptCacheKey, cachedMessages,
                   reqProviderOptions, network>>
    /\ UNCHANGED otherThanReq

\* provider.ts 63 and modelRegistry.ts 119-137: getModelProviderInfo answers
\* from the loaded registry, or getModels issues the metadata fetch first
GetModelProviderInfo ==
    /\ pcQ = "providerInfo"
    /\ IF regLoaded
       THEN /\ providerInfoNpm' = feedNpm
            /\ network' = network
            /\ pcQ' = "build"
       ELSE /\ providerInfoNpm' = providerInfoNpm
            /\ network' = Append(network, "metadata")
            /\ pcQ' = "fetching"
    /\ UNCHANGED <<storedKey, storageLog, sentBody, regLoaded, feedNpm, modelId, promptCaching, keyStore, coreMessages,
                   modelOptions, promptCacheKey, cachedMessages, reqProviderOptions, reqThrown>>
    /\ UNCHANGED otherThanReq

\* modelRegistry.ts 83-116, 123-136: the document arrives and the registry is loaded
MetadataArrives ==
    /\ pcQ = "fetching"
    /\ regLoaded' = TRUE
    /\ providerInfoNpm' = feedNpm
    /\ pcQ' = "build"
    /\ UNCHANGED <<storedKey, storageLog, sentBody, feedNpm, modelId, promptCaching, keyStore, coreMessages, modelOptions,
                   promptCacheKey, cachedMessages, reqProviderOptions, network, reqThrown>>
    /\ UNCHANGED otherThanReq

\* modelRegistry.ts 76-87: getModels throws; nothing in the request catches it
MetadataFails ==
    /\ pcQ = "fetching"
    /\ reqThrown' = <<MetadataFetchError>>
    /\ pcQ' = "failed"
    /\ UNCHANGED <<storedKey, storageLog, sentBody, regLoaded, feedNpm, modelId, promptCaching, keyStore, coreMessages,
                   modelOptions, providerInfoNpm, promptCacheKey, cachedMessages,
                   reqProviderOptions, network>>
    /\ UNCHANGED otherThanReq

\* a request that fetches the cache key whenever a scope is configured
BuildRequestKeyWhenDisabled ==
    /\ pcQ = "build"
    /\ LET useKey == promptCaching.cacheKeyScope # "none"
           got == getOrCreatePromptCacheKey(keyStore, promptCaching.cacheKeyScope)
           cacheKey == IF useKey THEN got.key ELSE Undefined
           cacheRetention == IF promptCaching.enabled THEN promptCaching.retention ELSE Undefined
           split == splitDebugOptions(modelOptions)
       IN  /\ promptCacheKey' = cacheKey
           /\ keyStore' = IF useKey THEN got.store ELSE keyStore
           /\ storageLog' = IF useKey
                            THEN storageLog \o StorageCalls(keyStore, promptCaching.cacheKeyScope)
                            ELSE storageLog
           /\ cachedMessages' =
                 SelectCachedMessages(promptCaching, providerInfoNpm, modelId, coreMessages)
           /\ reqProviderOptions' =
                 buildProviderOptions(split.modelOptions, providerInfoNpm, cacheKey, cacheRetention)
    /\ pcQ' = "streamZen"
    /\ UNCHANGED <<storedKey, regLoaded, feedNpm, modelId, promptCaching, coreMessages,
                   modelOptions, providerInfoNpm, network, reqThrown, sentBody>>
    /\ UNCHANGED otherThanReq

\* provider.ts 67-93: the cache key, the annotated messages, the provider options
BuildRequest ==
    /\ pcQ = "build"
    /\ LET useKey == promptCaching.enabled /\ promptCaching.cacheKeyScope # "none"
           got == getOrCreatePromptCacheKey(keyStore, promptCaching.cacheKeyScope)
           cacheKey == IF useKey THEN got.key ELSE Undefined
           cacheRetention == IF promptCaching.enabled THEN promptCaching.retention ELSE Undefined
           split == splitDebugOptions(modelOptions)
       IN  /\ promptCacheKey' = cacheKey
           /\ keyStore' = IF useKey THEN got.store ELSE keyStore
           /\ storageLog' = IF useKey
                            THEN storageLog \o StorageCalls(keyStore, promptCaching.cacheKeyScope)
                            ELSE storageLog
           /\ cachedMessages' =
                 SelectCachedMessages(promptCaching, providerInfoNpm, modelId, coreMessages)
           /\ reqProviderOptions' =
                 buildProviderOptions(split.modelOptions, providerInfoNpm, cacheKey, cacheRetention)
    /\ pcQ' = "streamZen"
    /\ UNCHANGED <<storedKey, regLoaded, feedNpm, modelId, promptCaching, coreMessages,
                   modelOptions, providerInfoNpm, network, reqThrown, sentBody>>
    /\ UNCHANGED otherThanReq

\* a ?? b
Coalesce(a, b) == IF a = JUndef \/ a = JNull THEN b ELSE a

\* the body the OpenAI-compatible client hands to transformRequestBody: the
\* fields of the provider's own section of the options at the top level, the
\* options under provider_options, or both
RequestBodies(id, options) ==
    LET section == Get(options, OPENAI_COMPAT_PROVIDER_NAME)
        top == [model |-> id,
                prompt_cache_key |-> Get(section, "prompt_cache_key"),
                prompt_cache_retention |-> Get(section, "prompt_cache_retention"),
                provider_options |-> JUndef]
    IN  { top,
          [top EXCEPT !.provider_options = options],
          [top EXCEPT !.prompt_cache_key = JUndef, !.prompt_cache_retention = JUndef,
                      !.provider_options = options] }

\* a transform that has no branch for glm-4.7
applyOpenAICompatibleCachingForAll(args) ==
    LET providerOptions == Get(args.provider_options, OPENAI_COMPAT_PROVIDER_NAME)
        cacheKey == Coalesce(args.prompt_cache_key, Get(providerOptions, "prompt_cache_key"))
        retention == Coalesce(args.prompt_cache_retention,
                              Get(providerOptions, "prompt_cache_retention"))
    IN  IF ~Truthy(cacheKey) /\ ~Truthy(retention) THEN args
        ELSE [args EXCEPT !.prompt_cache_key = Coalesce(cacheKey, args.prompt_cache_key),
                          !.prompt_cache_retention =
                              Coalesce(retention, args.prompt_cache_retention)]

\* zenClient.ts 249-294
applyOpenAICompatibleCaching(args) ==
    LET lowered == ToLowerCase(args.model)
        providerOptions == Get(args.provider_options, OPENAI_COMPAT_PROVIDER_NAME)
        isGlm47 == lowered = Glm47 \/ EndsWith(lowered, <<"/">> \o Glm47)
        hasCacheKey == args.prompt_cache_key # JUndef
                         \/ Get(providerOptions, "prompt_cache_key") # JUndef
        hasRetention == args.prompt_cache_retention # JUndef
                          \/ Get(providerOptions, "prompt_cache_retention") # JUndef
        sanitizedProviderOptions ==
            IF IsObject(providerOptions)
            THEN JObj(Spread(providerOptions.f,
                             [prompt_cache_key |-> JUndef, prompt_cache_retention |-> JUndef]))
            ELSE providerOptions
        cacheKey == Coalesce(args.prompt_cache_key, Get(providerOptions, "prompt_cache_key"))
        retention == Coalesce(args.prompt_cache_retention,
                              Get(providerOptions, "prompt_cache_retention"))
    IN  IF isGlm47
        THEN IF ~hasCacheKey /\ ~hasRetention THEN args
             ELSE [args EXCEPT
                     !.prompt_cache_key = JUndef,
                     !.prompt_cache_retention = JUndef,
                     !.provider_options =
                         IF Truthy(sanitizedProviderOptions) /\ IsObject(args.provider_options)
                         THEN JObj(Spread(args.provider_options.f,
                                          [k \in {OPENAI_COMPAT_PROVIDER_NAME} |->
                                              sanitizedProviderOptions]))
                         ELSE args.provider_options]
        ELSE IF ~Truthy(cacheKey) /\ ~Truthy(retention) THEN args
        ELSE [args EXCEPT !.prompt_cache_key = Coalesce(cacheKey, args.prompt_cache_key),
                          !.prompt_cache_retention =
                              Coalesce(retention, args.prompt_cache_retention)]

\* zenClient.ts 122-155, 220-247: the key check of streamZen, then the
\* streaming request; the OpenAI-compatible client sends the transformed body
StreamZenStart ==
    /\ pcQ = "streamZen"
    /\ IF BlankKey(storedKey)
       THEN /\ reqThrown' = <<[kind |-> "Error", message |-> KeyEmptyMessage]>>
            /\ network' = network
            /\ sentBody' = sentBody
            /\ pcQ' = "failed"
       ELSE /\ reqThrown' = reqThrown
            /\ network' = Append(network, "stream")
            /\ IF providerInfoNpm \in {"@ai-sdk/anthropic", "@ai-sdk/openai"}
               THEN sentBody' = sentBody
               ELSE \E args \in RequestBodies(modelId, reqProviderOptions) :
                       sentBody' = <<applyOpenAICompatibleCaching(args)>>
            /\ pcQ' = "requested"
    /\ UNCHANGED <<storedKey, storageLog, regLoaded, feedNpm, modelId, promptCaching, keyStore, coreMessages,
                   modelOptions, providerInfoNpm, promptCacheKey, cachedMessages,
                   reqProviderOptions>>
    /\ UNCHANGED otherThanReq

NextReq ==
    \/ CheckApiKey \/ GetModelProviderInfo \/ MetadataArrives \/ MetadataFails
    \/ BuildRequest \/ StreamZenStart

SpecRequest == InitReq /\ [][NextReq]_vars

\* ------------------------------------------------------------------------
\* Claims about the request preparation
\* ------------------------------------------------------------------------

\* the stored credential is absent, empty or whitespace-only
UnusableKey == storedKey = Undefined \/ storedKey = "" \/ storedKey = " "

\* C15: when no usable credential is stored (absent, empty or whitespace-only
\* key) the request fails before any network call is made, that is before the
\* model-metadata fetch and before the provider streaming request.
C15_NoNetworkWithoutKey == UnusableKey => network = <<>>

\* with an absent or empty key the request fails at once with the
\* 'key not set' error, whatever the registry holds
AbsentKeyFailsFirst ==
    (storedKey = Undefined \/ storedKey = "") =>
        /\ network = <<>>
        /\ pcQ \in {"start", "failed"}
        /\ pcQ = "failed" => reqThrown = <<[kind |-> "Error", message |-> KeyNotSetMessage]>>

\* some message handed to streamZen carries a per-message cache marker
MessagesMarked ==
    \E i \in 1..Len(cachedMessages) :
        \/ Truthy(Get(Get(cachedMessages[i].providerOptions, "anthropic"), "cacheControl"))
        \/ Truthy(Get(Get(cachedMessages[i].providerOptions, "openaiCompatible"), "cache_control"))

\* the provider options handed to streamZen carry a request-level cache key
OptionsCarryKey ==
    \/ Truthy(Get(Get(reqProviderOptions, "openai"), "promptCacheKey"))
    \/ Truthy(Get(Get(reqProviderOptions, "opencode-zen"), "prompt_cache_key"))

\* C17: in a request with caching enabled, per-message cache markers and a
\* request-level cache key are never used together; a dialect that uses the
\* cache key marks no individual message.
C17_MechanismsExclusive ==
    (pcQ \in {"streamZen", "requested"} /\ promptCaching.enabled) =>
        ~(MessagesMarked /\ OptionsCarryKey)

\* the request has been built and handed to streamZen
RequestBuilt == pcQ \in {"streamZen", "requested"}

\* the caller's model options without the self-test's debug flag, undefined
\* when nothing else is in them
CallerOptions ==
    IF modelOptions.t # "object" THEN modelOptions
    ELSE LET rest == (DOMAIN modelOptions.f) \ {DebugFlag}
         IN  IF rest = {} THEN JUndef ELSE JObj([k \in rest |-> modelOptions.f[k]])

\* C28: with prompt caching disabled the request is built as a no-op with
\* respect to caching, for every dialect: no message gains a cache marker, no
\* cache key is read, generated or persisted, and the provider options handed
\* to the transport are the caller's model options (those the request passes
\* on, that is without the self-test's debug flag), with no cache key or
\* retention added.
C28_DisabledIsNoOp ==
    ~promptCaching.enabled =>
        /\ storageLog = <<>>
        /\ promptCacheKey = Undefined
        /\ RequestBuilt =>
              /\ cachedMessages = coreMessages
              /\ ~MessagesMarked
              /\ reqProviderOptions = CallerOptions

\* caching is disabled with the workspace scope configured and no key stored;
\* the request for an OpenAI-compatible model went out with the caller's
\* options and three unmarked messages, and no key was stored
C28_Witness ==
    /\ pcQ = "requested" /\ ~promptCaching.enabled
    /\ promptCaching.cacheKeyScope = "workspace" /\ keyStore["workspace"] = Undefined
    /\ providerInfoNpm = "@ai-sdk/openai-compatible"
    /\ IsObject(modelOptions) /\ OPENAI_COMPAT_PROVIDER_NAME \in DOMAIN modelOptions.f
    /\ reqProviderOptions = modelOptions
    /\ Len(cachedMessages) = 3

\* the options held the debug flag alone and the transport got none
C28_WitnessDebugFlag ==
    /\ pcQ = "requested" /\ ~promptCaching.enabled
    /\ IsObject(modelOptions) /\ DebugFlag \in DOMAIN modelOptions.f
    /\ reqProviderOptions = JUndef

\* the id is glm-4.7 or ends in /glm-4.7, whatever the case of its letters
CacheUnsafeFamily(id) ==
    ToLowerCase(id) = Glm47 \/ EndsWith(ToLowerCase(id), <<"/">> \o Glm47)

\* some message handed to the transport carries a defined cache_control marker
DefinedCacheControl ==
    \E i \in 1..Len(cachedMessages) :
        Get(Get(cachedMessages[i].providerOptions, "openaiCompatible"), "cache_control") # JUndef

\* a request body carries a defined cache key or retention, at the top level
\* or in the provider's section of provider_options
BodyCarriesCaching(body) ==
    LET section == Get(body.provider_options, OPENAI_COMPAT_PROVIDER_NAME)
    IN  \/ body.prompt_cache_key # JUndef
        \/ body.prompt_cache_retention # JUndef
        \/ Get(section, "prompt_cache_key") # JUndef
        \/ Get(section, "prompt_cache_retention") # JUndef

\* C29: for a model id of the cache-unsafe family (glm-4.7, or an id ending in
\* /glm-4.7, case-insensitive) under the OpenAI-compatible dialect no caching
\* field reaches the backend, whether caching is enabled or not: no message
\* handed to the transport carries a defined cache_control marker, and the
\* transformed request body carries neither a defined prompt_cache_key nor a
\* defined prompt_cache_retention, also when the caller injected them.
C29_GlmSendsNoCaching ==
    (RequestBuilt /\ CacheUnsafeFamily(modelId)
       /\ providerInfoNpm = "@ai-sdk/openai-compatible") =>
        /\ ~DefinedCacheControl
        /\ \A i \in 1..Len(sentBody) : ~BodyCarriesCaching(sentBody[i])

\* caching is enabled with a scoped key: the options handed to streamZen for
\* "GLM-4.7" carry the generated key and the body that was sent carries none
C29_Witness ==
    /\ pcQ = "requested" /\ promptCaching.enabled /\ promptCaching.retention = "24h"
    /\ modelId = <<"G", "L", "M", "-", "4", ".", "7">>
    /\ providerInfoNpm = "@ai-sdk/openai-compatible"
    /\ Get(Get(reqProviderOptions, OPENAI_COMPAT_PROVIDER_NAME), "prompt_cache_key")
         = JStr(RandomUuid)
    /\ Len(cachedMessages) = 3
    /\ Len(sentBody) = 1 /\ IsObject(sentBody[1].provider_options)
    /\ ~BodyCarriesCaching(sentBody[1])

\* caching is disabled and the caller injected a key and a retention for
\* "zai/glm-4.7": the body that was sent carries neither
C29_WitnessInjected ==
    /\ pcQ = "requested" /\ ~promptCaching.enabled
    /\ modelId = <<"z", "a", "i", "/">> \o Glm47
    /\ providerInfoNpm = "@ai-sdk/openai-compatible"
    /\ Get(Get(modelOptions, OPENAI_COMPAT_PROVIDER_NAME), "prompt_cache_key") = JStr("injected")
    /\ Len(sentBody) = 1 /\ sentBody[1].provider_options = JUndef
    /\ ~BodyCarriesCaching(sentBody[1])

\* ------------------------------------------------------------------------
\* Claims about the error classification
\* ------------------------------------------------------------------------

\* the text handed to wrapApiError
OriginalMessage ==
    IF errIn.kind = "object" THEN <<"[object Object]">> ELSE errIn.message

LooksUnauthorized ==
    HasTokens(OriginalMessage, <<"Unauthorized">>) \/ HasTokens(OriginalMessage, <<"4", "0", "1">>)

LooksNotFound ==
    HasTokens(OriginalMessage, <<"4", "0", "4">>) \/ HasTokens(OriginalMessage, <<"Not Found">>)

\* C16: wrapApiError classifies a failure by its message text: Unauthorized
\* when it contains "Unauthorized" or "401", otherwise ModelNotFound when it
\* contains "404" or "Not Found", otherwise Generic with the original message
\* unchanged; Unauthorized wins when both patterns occur.
C16_ClassifiedByMessage ==
    pcE = "wrapped" =>
        /\ LooksUnauthorized => errOut[1].message = UnauthorizedMessage
        /\ (~LooksUnauthorized /\ LooksNotFound) => errOut[1].message = ModelNotFoundMessage
        /\ (~LooksUnauthorized /\ ~LooksNotFound) => errOut[1].message = OriginalMessage

\* the message "40401" holds both status codes and was classified Unauthorized
C16_Witness ==
    /\ pcE = "wrapped"
    /\ errIn.message = <<"4", "0", "4", "0", "1">>
    /\ errOut[1].message = UnauthorizedMessage

\* a message with the word in lower case stayed as it was
C16_WitnessGeneric ==
    /\ pcE = "wrapped"
    /\ errIn = [kind |-> "Error", message |-> <<"unauthorized", "failed">>]
    /\ errOut[1].message = <<"unauthorized", "failed">>

\* ------------------------------------------------------------------------
\* The prompt cache key over many requests: provider.ts, getOrCreatePromptCacheKey
\* ------------------------------------------------------------------------

\* crypto.randomUUID(): the n-th value it returns, each one new
UuidNames == <<"uuid-1", "uuid-2", "uuid-3", "uuid-4", "uuid-5", "uuid-6", "uuid-7", "uuid-8">>

\* what workspaceState / globalState hold under the key name at activation
StoredValues == {Undefined, "", "stored-key"}

InitKey ==
    /\ scopeStore \in [{"workspace", "global"} -> StoredValues]
    /\ keyCalls = <<>>
    /\ uuids = 0
    /\ pending = {} /\ keyWrites = <<>>
    /\ NamesIdle /\ StreamIdle /\ TransIdle /\ LoopIdle /\ CacheIdle /\ SanIdle /\ RegIdle /\ ReqIdle /\ ErrIdle /\ OutIdle

\* provider.ts 68-71, 423-435: one call, from its get to its return; calls do
\* not overlap
PromptCacheKeyCall ==
    /\ Len(keyCalls) < MaxKeyCalls
    /\ \E scope \in {"workspace", "global"} :
          LET got == getOrCreatePromptCacheKeyUsing(scopeStore, scope, UuidNames[uuids + 1])
              wrote == Len(StorageCalls(scopeStore, scope)) = 2
          IN  /\ scopeStore' = got.store
              /\ uuids' = IF wrote THEN uuids + 1 ELSE uuids
              /\ keyCalls' = Append(keyCalls, [scope |-> scope, key |-> got.key, wrote |-> wrote,
                                               before |-> scopeStore, after |-> got.store])
    /\ UNCHANGED <<pending, keyWrites>>
    /\ UNCHANGED otherThanKey

NextKey == PromptCacheKeyCall

SpecPromptCacheKey == InitKey /\ [][NextKey]_vars

\* Calls that overlap.  The code reads the store and, when it holds no key,
\* generates one and calls storage.update in the same turn (provider.ts
\* 429-432); the call returns when the update has resolved.  When the value
\* written becomes visible to other readers of the store is up to the host:
\* at the call of update, or later, before it resolves.

\* the calls started so far
KeyCallsStarted == Len(keyCalls) + Cardinality(pending)

\* provider.ts 427-434: get; with a key stored the call returns it, without
\* one it generates a key, calls update and waits
StartKeyCall ==
    /\ KeyCallsStarted < MaxRaceCalls
    /\ \E scope \in {"workspace", "global"}, landsNow \in BOOLEAN :
          LET held == scopeStore[scope]
              fresh == UuidNames[uuids + 1]
              quiet == pending = {}
          IN  IF held = Undefined \/ held = ""
              THEN /\ uuids' = uuids + 1
                   /\ pending' = pending \cup {[scope |-> scope, key |-> fresh,
                                                 landed |-> landsNow, quiet |-> quiet,
                                                 before |-> scopeStore]}
                   /\ scopeStore' = IF landsNow THEN [scopeStore EXCEPT ![scope] = fresh]
                                    ELSE scopeStore
                   /\ keyWrites' = IF landsNow
                                   THEN Append(keyWrites, [scope |-> scope, key |-> fresh])
                                   ELSE keyWrites
                   /\ keyCalls' = keyCalls
              ELSE /\ landsNow
                   /\ keyCalls' = Append(keyCalls, [scope |-> scope, key |-> held, wrote |-> FALSE,
                                                    quiet |-> quiet, before |-> scopeStore,
                                                    after |-> scopeStore])
                   /\ UNCHANGED <<scopeStore, uuids, pending, keyWrites>>
    /\ UNCHANGED otherThanKey

\* an update that keeps the key another call has stored meanwhile
UpdateLandsUnlessStored ==
    /\ \E call \in pending :
          /\ ~call.landed
          /\ pending' = (pending \ {call}) \cup {[call EXCEPT !.landed = TRUE]}
          /\ scopeStore' = IF scopeStore[call.scope] = Undefined \/ scopeStore[call.scope] = ""
                           THEN [scopeStore EXCEPT ![call.scope] = call.key]
                           ELSE scopeStore
          /\ keyWrites' = Append(keyWrites, [scope |-> call.scope, key |-> call.key])
    /\ UNCHANGED <<keyCalls, uuids>>
    /\ UNCHANGED otherThanKey

\* provider.ts 432: the value of an update under way reaches the store
UpdateLands ==
    /\ \E call \in pending :
          /\ ~call.landed
          /\ pending' = (pending \ {call}) \cup {[call EXCEPT !.landed = TRUE]}
          /\ scopeStore' = [scopeStore EXCEPT ![call.scope] = call.key]
          /\ keyWrites' = Append(keyWrites, [scope |-> call.scope, key |-> call.key])
    /\ UNCHANGED <<keyCalls, uuids>>
    /\ UNCHANGED otherThanKey

\* provider.ts 432-434: the update resolves and the call returns its own key
UpdateResolves ==
    /\ \E call \in pending :
          /\ call.landed
          /\ pending' = pending \ {call}
          /\ keyCalls' = Append(keyCalls, [scope |-> call.scope, key |-> call.key, wrote |-> TRUE,
                                           quiet |-> call.quiet, before |-> call.before,
                                           after |-> scopeStore])
    /\ UNCHANGED <<scopeStore, uuids, keyWrites>>
    /\ UNCHANGED otherThanKey

NextKeyRace == StartKeyCall \/ UpdateLands \/ UpdateResolves

SpecKeyRace == InitKey /\ [][NextKeyRace]_vars

\* ------------------------------------------------------------------------
\* Claims about the prompt cache key
\* ------------------------------------------------------------------------

OtherScope(scope) == IF scope = "global" THEN "workspace" ELSE "global"

\* the calls made on a scope before the i-th call
EarlierOnScope(i) == { j \in 1..(i - 1) : keyCalls[j].scope = keyCalls[i].scope }

\* C30: the prompt cache key is generated once per scope: in a sequence of
\* non-overlapping getOrCreatePromptCacheKey calls on the same scope only the
\* first call generates and writes a key (it does when the scope holds none),
\* every later call returns that same key without writing, and the workspace
\* and the global store never affect each other.
C30_KeyOncePerScope ==
    \A i \in 1..Len(keyCalls) :
        LET call == keyCalls[i]
            held == call.before[call.scope]
        IN  /\ call.wrote <=> (held = Undefined \/ held = "")
            /\ call.wrote => EarlierOnScope(i) = {}
            /\ call.key # Undefined /\ call.key # ""
            /\ call.after[call.scope] = call.key
            /\ \A j \in EarlierOnScope(i) : ~call.wrote /\ call.key = keyCalls[j].key
            /\ call.after[OtherScope(call.scope)] = call.before[OtherScope(call.scope)]
            /\ call.wrote => \A j \in 1..(i - 1) : keyCalls[j].key # call.key

\* four calls, workspace, global, workspace, global, on empty stores: the
\* first call on each scope generated its key and the later one returned it
C30_Witness ==
    /\ Len(keyCalls) = 4
    /\ keyCalls[1].scope = "workspace" /\ keyCalls[1].wrote /\ keyCalls[1].before["workspace"] = Undefined
    /\ keyCalls[2].scope = "global" /\ keyCalls[2].wrote /\ keyCalls[2].before["global"] = ""
    /\ keyCalls[3].scope = "workspace" /\ ~keyCalls[3].wrote /\ keyCalls[3].key = keyCalls[1].key
    /\ keyCalls[4].scope = "global" /\ ~keyCalls[4].wrote /\ keyCalls[4].key = keyCalls[2].key
    /\ keyCalls[1].key # keyCalls[2].key

\* the keys written to a scope, in the order in which they reached the store
WritesTo(scope) == SelectSeq(keyWrites, LAMBDA w : w.scope = scope)

\* C31: when first-use getOrCreatePromptCacheKey calls on the same scope
\* overlap, each may generate and return a key of its own; once all of them
\* have completed the stored key is the one written last, and every call
\* that starts afterwards returns that stored key without writing.
C31_LaterWriteWins ==
    /\ pending = {} =>
          \A scope \in {"workspace", "global"} :
              WritesTo(scope) # <<>> =>
                  scopeStore[scope] = WritesTo(scope)[Len(WritesTo(scope))].key
    /\ \A i \in 1..Len(keyCalls) :
          LET call == keyCalls[i]
              held == call.before[call.scope]
          IN  (call.quiet /\ held # Undefined /\ held # "") =>
                  /\ ~call.wrote
                  /\ call.key = held
                  /\ call.after = call.before

\* two calls on the workspace scope overlapped on an empty store and returned
\* different keys; a third call that began after both returned the key of
\* the write that landed last
C31_Witness ==
    /\ pending = {} /\ Len(keyCalls) = 3 /\ Len(keyWrites) = 2
    /\ \A i \in 1..3 : keyCalls[i].scope = "workspace"
    /\ keyCalls[1].wrote /\ keyCalls[2].wrote /\ keyCalls[1].key # keyCalls[2].key
    /\ ~keyCalls[2].quiet
    /\ ~keyCalls[3].wrote /\ keyCalls[3].quiet
    /\ keyCalls[3].key = keyWrites[2].key
    /\ scopeStore["workspace"] = keyWrites[2].key

\* ------------------------------------------------------------------------
\* The output of a tool result: provider.ts, languageModelToolResultContentToOutput
\* ------------------------------------------------------------------------

\* an element of the content array that is undefined
HostUndefined == HostPart("Undefined", Undefined, Undefined, Undefined, Undefined, <<>>)

\* the nested parts a LanguageModelToolResultPart may hold
NestedParts ==
    { HostText("a"), HostText(""), HostTsx("x"), HostData("text/plain", "t"),
      HostData("image/png", "img"), HostData("application/pdf", "doc"),
      HostData("cache_control", "meta"), HostUnknown, HostUndefined }

InitOut ==
    /\ resultContent \in UNION { [1..n -> NestedParts] : n \in 0..MaxNested }
    /\ resultOutput = <<>>
    /\ pcO = "ready"
    /\ NamesIdle /\ StreamIdle /\ TransIdle /\ LoopIdle /\ CacheIdle /\ SanIdle /\ RegIdle /\ ReqIdle /\ ErrIdle /\ KeyIdle

\* provider.ts 207: output: languageModelToolResultContentToOutput(part.content)
ConvertToolResult ==
    /\ pcO = "ready"
    /\ resultOutput' = <<languageModelToolResultContentToOutput(resultContent)>>
    /\ pcO' = "done"
    /\ UNCHANGED resultContent
    /\ UNCHANGED otherThanOut

NextOut == ConvertToolResult

SpecToolResult == InitOut /\ [][NextOut]_vars

\* ------------------------------------------------------------------------
\* Claims about the output of a tool result
\* ------------------------------------------------------------------------

\* a nested part that is kept: not the cache_control sentinel, not undefined
RetainedNested(part) ==
    /\ part.kind # "Undefined"
    /\ ~(part.kind = "Data" /\ part.mime = "cache_control")

\* a nested part that is text: a text part, a rendered prompt-tsx part or
\* data of a text/ type
TextNested(part) ==
    \/ part.kind \in {"Text", "PromptTsx"}
    \/ part.kind = "Data" /\ part.mime \in TextMimes

NestedItemType(part) ==
    IF TextNested(part) THEN "text"
    ELSE IF part.kind = "Data" /\ part.mime \in ImageMimes THEN "image-data"
    ELSE IF part.kind = "Data" THEN "file-data"
    ELSE "custom"

\* C33: the nested content of a ToolResult is reduced to a single string, the
\* concatenation of the texts in order, exactly when every retained nested
\* part is text; otherwise it is kept as a structured list with one item per
\* retained part in the original order (text, image-data, file-data or
\* custom); cache_control sentinel parts are not retained.
C33_StringIffAllNestedText ==
    pcO = "done" =>
        LET kept == SelectSeq(resultContent, RetainedNested)
            allText == \A k \in 1..Len(kept) : TextNested(kept[k])
            out == resultOutput[1]
        IN  /\ (out.type = "text") <=> allText
            /\ allText => out.value = Join([k \in 1..Len(kept) |-> kept[k].value])
            /\ ~allText =>
                  /\ out.type = "content"
                  /\ Len(out.items) = Len(kept)
                  /\ \A k \in 1..Len(kept) :
                        /\ out.items[k].type = NestedItemType(kept[k])
                        /\ TextNested(kept[k]) => out.items[k].text = kept[k].value
                        /\ kept[k].kind = "Data" /\ ~TextNested(kept[k]) =>
                              (out.items[k].data = kept[k].value
                                 /\ out.items[k].mediaType = kept[k].mime)

\* a text, the sentinel and a text/plain data part became the string "at"
C33_Witness ==
    /\ pcO = "done"
    /\ resultContent = <<HostText("a"), HostData("cache_control", "meta"),
                         HostData("text/plain", "t")>>
    /\ resultOutput = <<[type |-> "text", value |-> "at", items |-> <<>>]>>

\* a text, an image and an unknown part were kept as three items in order
C33_WitnessList ==
    /\ pcO = "done"
    /\ resultContent = <<HostText("a"), HostData("image/png", "img"), HostUnknown>>
    /\ resultOutput[1].type = "content" /\ Len(resultOutput[1].items) = 3
    /\ resultOutput[1].items[2].type = "image-data"
    /\ resultOutput[1].items[3].type = "custom"

====
